---- MODULE Spec2Model ----
(***************************************************************************)
(* Verification model of the dpdk_100g repository: the MIRA multi-core     *)
(* DDoS detector (workers, coordinator, per-worker sketches), the HTTP     *)
(* flood detector's rule pass, and the TX loops of the traffic senders.    *)
(*                                                                         *)
(* The repository holds several separate executables.  Each one is a       *)
(* specification of its own over the shared variable list:                 *)
(*   SpecTx     the sender TX loops (send_loop_fast, lcore_baseline_traffic)*)
(*   SpecDet    the MIRA detector: worker_thread x N + coordinator_thread  *)
(*   SpecSketch the per-worker sketch at the granularity of single stores  *)
(*   SpecRules  the rule passes of the two detectors applied to inputs     *)
(*   SpecHist   the detection-event statistics applied to event sequences  *)
(*   SpecStop   the MIRA detector with a termination signal                *)
(*   SpecQuit   a run to its end: the detector, or the timed sender        *)
(*   SpecRx     the RX packet loops, buffer by buffer                      *)
(*   SpecScan   the QUIC ACK-frame scan on drawn payloads                  *)
(*   SpecParse  the header reads of the packet parsers on drawn frames     *)
(*   SpecPacer  the rate limiting block of the send loops                  *)
(*   SpecReplay the inter-packet delay of the timed replay                 *)
(*   SpecAdapt  the phase schedule of the adaptive sender                  *)
(*   SpecTxq    the TX queues of the traffic generators' workers           *)
(*   SpecSig    the signal handler and the log file of the detectors       *)
(*   SpecMerge  octosketch_merge on drawn source sketches                  *)
(*   SpecDwin   the HTTP and QUIC detectors across detection windows       *)
(*   SpecPhases the phases file of the adaptive sender, as main loads it   *)
(*   SpecFill   load_pcap and the buffer fill loop of the free-run senders  *)
(* A specification leaves the variables of the other executables alone.    *)
(***************************************************************************)
EXTENDS Integers, Sequences, FiniteSets, TLC

(***************************************************************************)
(* Generic helpers                                                         *)
(***************************************************************************)
Max2(a, b) == IF a >= b THEN a ELSE b

RECURSIVE SumOver(_, _)
SumOver(f, S) ==
    IF S = {} THEN 0
    ELSE LET x == CHOOSE y \in S : TRUE IN f[x] + SumOver(f, S \ {x})

RECURSIVE SetMax(_)
SetMax(S) ==
    IF S = {} THEN 0
    ELSE LET x == CHOOSE y \in S : TRUE IN Max2(x, SetMax(S \ {x}))

Range(s) == { s[i] : i \in 1..Len(s) }

(***************************************************************************)
(* ======================= SENDER TX LOOPS ============================== *)
(* mira/benign_sender/dpdk_pcap_sender_v2.c : send_loop_fast               *)
(* http_flood_advance/benign_generator/_old/baseline_traffic_dpdk.c :      *)
(*                                            lcore_baseline_traffic       *)
(***************************************************************************)

\* Model sizes of the sender world (the programs use BURST_SIZE 256 / 32 and
\* pools of 262144 mbufs; the loops do not depend on the sizes).
TxBurst == 2
TxPool == 3
MaxSent == 3
NumPcap == 4
\* "tx_fail_count >= 100" in lcore_baseline_traffic; the escalation does not
\* depend on the size of the limit.
TxFailLimit == 3

Bufs == 1..TxPool
Lcores == 1..2

VARIABLES
    prog,               \* which sender executable this run is
    tx_force_quit,      \* force_quit of the sender
    in_pool,            \* mbuf pool: buffer -> number of times it sits in the pool
    nic_ring,           \* buffers accepted by rte_eth_tx_burst, not yet completed
    f_pc,               \* send_loop_fast: position in the loop body
    f_pkts,             \* send_loop_fast: pkts[] (buffers the loop holds)
    f_nb_tx,            \* send_loop_fast: nb_tx of the last rte_eth_tx_burst
    current_packet_idx, \* replay index into pcap_packets
    total_packets_sent,
    total_bytes_sent,
    b_pc,               \* lcore_baseline_traffic: position, per lcore
    b_bufs,             \* lcore_baseline_traffic: bufs[0..actual_burst), per lcore
    b_nb_tx,            \* lcore_baseline_traffic: nb_tx, per lcore
    b_stats,            \* stats[lcore_id]
    consecutive_alloc_fails,
    tx_fail_count,      \* function-static counter of lcore_baseline_traffic
    f_delay_us,         \* send loop: rte_delay_us_block after its last allocation (0: none)
    f_zero_run,         \* rte_eth_tx_burst calls in a row that returned 0, up to
                        \* TxFailLimit (kept for the properties; no program variable)
    b_delay_us,         \* lcore_baseline_traffic: pause after its last generation loop
    \* ---- MIRA detector (mira_ddos_detector.c) ----
    now,                \* the TSC: what the next rte_rdtsc() returns
    force_quit,
    w_pc,               \* worker_thread: position, per worker
    local,              \* worker_thread: the local_* counters, per worker
    sample_counter,     \* worker_thread: sample_counter, per worker
    g_worker_stats,     \* g_worker_stats[queue]
    window_baseline_pkts,
    window_attack_pkts,
    window_baseline_bytes,
    window_attack_bytes,
    last_window_reset_tsc,
    g_stats,            \* struct detection_stats g_stats
    g_worker_sketch_attack,
    g_merged_sketch_attack,
    c_pc,               \* coordinator_thread: position
    cur_tsc,            \* coordinator_thread: cur_tsc of the current iteration
    c_iters,            \* coordinator iterations started (bounds the run)
    rx_kind,            \* the packets each RX queue receives in this run
    \* ---- sketch at store granularity ----
    u_pc,               \* octosketch_update_ip in progress, per worker
    r_pc,               \* coordinator's reset loop in progress
    \* ---- rule passes on drawn inputs ----
    rule_in,
    rule_out,
    \* ---- functions of the programs applied to drawn inputs ----
    hist,               \* detection events fed to the latency statistics
    rxb,                \* RX path, buffer by buffer: pool, bufs[] and i per worker
    scan,               \* parse_quic_for_acks on a drawn payload, iteration by iteration
    parse,              \* a drawn frame and the offsets the packet parser read in it
    pacer,              \* the rate limiting block of the send loops on drawn inputs
    replay,             \* the inter-packet delay of send_loop_timed on drawn capture gaps
    adapt,              \* the phase schedule of send_loop_adaptive
    txq,                \* the TX queue each generator worker is transmitting on
    sig,                \* signal handling and the log file of the HTTP and QUIC detectors
    mrg,                \* octosketch_merge on drawn source sketches
    dwin,               \* the counters of the HTTP and QUIC detectors across detection windows
    phs,                \* the phase schedule loaded from the phases file by main
    fill                \* the capture load_pcap has loaded and the replay index of the free-run fill loop

txVars == << prog, tx_force_quit, in_pool, nic_ring, f_pc, f_pkts, f_nb_tx,
             current_packet_idx, total_packets_sent, total_bytes_sent,
             b_pc, b_bufs, b_nb_tx, b_stats, consecutive_alloc_fails,
             tx_fail_count, f_delay_us, f_zero_run, b_delay_us >>

detVars == << now, force_quit, w_pc, local, sample_counter, g_worker_stats,
              window_baseline_pkts, window_attack_pkts, window_baseline_bytes,
              window_attack_bytes, last_window_reset_tsc, g_stats,
              g_worker_sketch_attack, g_merged_sketch_attack, c_pc, cur_tsc,
              c_iters, rx_kind >>

skVars == << u_pc, r_pc >>

ruleVars == << rule_in, rule_out >>

fnVars == << hist, rxb, scan, parse, pacer, replay, adapt, txq, sig, mrg, dwin, phs, fill >>

vars == << txVars, detVars, skVars, ruleVars, fnVars >>

nonTxVars == << detVars, skVars, ruleVars, fnVars >>

\* Length of capture record i (pcap_packets[i].len).
PcapLen(i) == 60 + i

\* rte_pktmbuf_alloc_bulk / rte_pktmbuf_alloc hand out buffers that are in the
\* pool; which ones is the allocator's business (lowest ids first here).
FreeBufs(pool) == { b \in Bufs : pool[b] > 0 }

RECURSIVE TakeBufs(_, _)
TakeBufs(pool, n) ==
    IF n = 0 \/ FreeBufs(pool) = {} THEN << >>
    ELSE LET b == CHOOSE x \in FreeBufs(pool) : \A y \in FreeBufs(pool) : x <= y
         IN << b >> \o TakeBufs([pool EXCEPT ![b] = @ - 1], n - 1)

RECURSIVE PoolMinus(_, _)
PoolMinus(pool, s) ==
    IF s = << >> THEN pool
    ELSE PoolMinus([pool EXCEPT ![Head(s)] = @ - 1], Tail(s))

\* rte_pktmbuf_free of every buffer of s: each goes back into the pool.
RECURSIVE PoolPlus(_, _)
PoolPlus(pool, s) ==
    IF s = << >> THEN pool
    ELSE PoolPlus([pool EXCEPT ![Head(s)] = @ + 1], Tail(s))

\* The tail pkts[nb_tx .. n-1] that the free loops release (0-based in C).
UnsentTail_Leak(pkts, nb_tx) == SubSeq(pkts, nb_tx + 2, Len(pkts))
UnsentTail(pkts, nb_tx) == SubSeq(pkts, nb_tx + 1, Len(pkts))

AcceptedHead(pkts, nb_tx) == SubSeq(pkts, 1, nb_tx)

RECURSIVE SeqBytes(_, _)
SeqBytes(idx, n) ==
    IF n = 0 THEN 0 ELSE PcapLen(idx) + SeqBytes((idx + 1) % NumPcap, n - 1)

TxInit ==
    /\ prog \in {"fast", "baseline"}
    /\ tx_force_quit = FALSE
    /\ in_pool = [b \in Bufs |-> 1]
    /\ nic_ring = {}
    /\ f_pc = "alloc"
    /\ f_pkts = << >>
    /\ f_nb_tx = 0
    /\ current_packet_idx = 0
    /\ total_packets_sent = 0
    /\ total_bytes_sent = 0
    /\ b_pc = [l \in Lcores |-> "gen"]
    /\ b_bufs = [l \in Lcores |-> << >>]
    /\ b_nb_tx = [l \in Lcores |-> 0]
    /\ b_stats = [l \in Lcores |-> [tx_packets |-> 0, tx_dropped |-> 0, alloc_failed |-> 0]]
    /\ consecutive_alloc_fails = [l \in Lcores |-> 0]
    /\ tx_fail_count = 0
    /\ f_delay_us = 0
    /\ f_zero_run = 0
    /\ b_delay_us = [l \in Lcores |-> 0]

\* The driver completes a transmitted buffer and returns it to the pool.
NicComplete ==
    /\ \E b \in nic_ring :
          /\ nic_ring' = nic_ring \ {b}
          /\ in_pool' = [in_pool EXCEPT ![b] = @ + 1]
    /\ UNCHANGED << prog, f_delay_us, f_zero_run, b_delay_us,
                    tx_force_quit, f_pc, f_pkts, f_nb_tx, current_packet_idx,
                    total_packets_sent, total_bytes_sent, b_pc, b_bufs, b_nb_tx,
                    b_stats, consecutive_alloc_fails, tx_fail_count >>
    /\ UNCHANGED nonTxVars

\* SIGINT / SIGTERM: signal_handler sets force_quit.
TxSignal ==
    /\ ~tx_force_quit
    /\ tx_force_quit' = TRUE
    /\ UNCHANGED << prog, f_delay_us, f_zero_run, b_delay_us,
                    in_pool, nic_ring, f_pc, f_pkts, f_nb_tx, current_packet_idx,
                    total_packets_sent, total_bytes_sent, b_pc, b_bufs, b_nb_tx,
                    b_stats, consecutive_alloc_fails, tx_fail_count >>
    /\ UNCHANGED nonTxVars

\* rte_delay_us_block(100) after a failed allocation in the v2 sender's loops
ALLOC_RETRY_US == 100

Min2(a, b) == IF a <= b THEN a ELSE b

(*---------------- send_loop_fast ----------------*)
\* while (!force_quit) { if (rte_pktmbuf_alloc_bulk(...) != 0) { delay; continue; }
FastAlloc ==
    /\ prog = "fast" /\ f_pc = "alloc" /\ ~tx_force_quit
    /\ total_packets_sent < MaxSent
    /\ IF Cardinality(FreeBufs(in_pool)) >= TxBurst
       THEN /\ f_pkts' = TakeBufs(in_pool, TxBurst)
            /\ in_pool' = PoolMinus(in_pool, TakeBufs(in_pool, TxBurst))
            /\ f_pc' = "tx"
            /\ f_delay_us' = 0
       ELSE \* all-or-nothing: the failed call hands out no buffer;
            \* rte_delay_us_block(100); continue;
            /\ f_delay_us' = ALLOC_RETRY_US
            /\ UNCHANGED << f_pkts, in_pool, f_pc >>
    /\ UNCHANGED << prog, f_zero_run, b_delay_us,
                    tx_force_quit, nic_ring, f_nb_tx, current_packet_idx,
                    total_packets_sent, total_bytes_sent, b_pc, b_bufs, b_nb_tx,
                    b_stats, consecutive_alloc_fails, tx_fail_count >>
    /\ UNCHANGED nonTxVars

\* the while condition read as true: the loop is left
FastExit ==
    /\ prog = "fast" /\ f_pc = "alloc" /\ tx_force_quit
    /\ f_pc' = "done"
    /\ UNCHANGED << prog, f_delay_us, f_zero_run, b_delay_us,
                    tx_force_quit, in_pool, nic_ring, f_pkts, f_nb_tx,
                    current_packet_idx, total_packets_sent, total_bytes_sent, b_pc,
                    b_bufs, b_nb_tx, b_stats, consecutive_alloc_fails, tx_fail_count >>
    /\ UNCHANGED nonTxVars

\* fill loop, rte_eth_tx_burst, total_packets_sent and the byte accounting
FastTx ==
    /\ prog = "fast" /\ f_pc = "tx"
    /\ \E n \in 0..TxBurst :
          /\ f_nb_tx' = n
          /\ f_zero_run' = IF n = 0 THEN Min2(f_zero_run + 1, TxFailLimit) ELSE 0
          /\ nic_ring' = nic_ring \cup Range(AcceptedHead(f_pkts, n))
          /\ total_packets_sent' = total_packets_sent + n
          /\ total_bytes_sent' = total_bytes_sent + SeqBytes(current_packet_idx, n)
    /\ current_packet_idx' = (current_packet_idx + TxBurst) % NumPcap
    /\ f_pc' = "free"
    /\ UNCHANGED << prog, f_delay_us, b_delay_us,
                    tx_force_quit, in_pool, f_pkts, b_pc, b_bufs, b_nb_tx,
                    b_stats, consecutive_alloc_fails, tx_fail_count >>
    /\ UNCHANGED nonTxVars

\* if (nb_tx < BURST_SIZE) for (i = nb_tx; i < BURST_SIZE; i++) rte_pktmbuf_free(pkts[i]);
FastFree ==
    /\ prog = "fast" /\ f_pc = "free"
    /\ in_pool' = PoolPlus(in_pool, UnsentTail(f_pkts, f_nb_tx))
    /\ f_pkts' = << >>
    /\ f_pc' = "alloc"
    /\ UNCHANGED << prog, f_delay_us, f_zero_run, b_delay_us,
                    tx_force_quit, nic_ring, f_nb_tx, current_packet_idx,
                    total_packets_sent, total_bytes_sent, b_pc, b_bufs, b_nb_tx,
                    b_stats, consecutive_alloc_fails, tx_fail_count >>
    /\ UNCHANGED nonTxVars

(*---------------- lcore_baseline_traffic ----------------*)
\* The pauses of the generation loop after a failed allocation, with
\* consecutive_alloc_fails already incremented: none up to 10 failures in a
\* row, then rte_delay_us_block(1000), and above 100 another
\* rte_delay_us_block(10000).
AllocPause(fails) ==
    IF fails > 10
    THEN 1000 + (IF fails > 100 THEN 10000 ELSE 0)
    ELSE 0

\* actual_burst = BURST_SIZE, or BURST_SIZE*3/4 + rand() % (BURST_SIZE/2)
BaseBurstSizes ==
    {TxBurst} \cup { (TxBurst * 3) \div 4 + r : r \in 0..((TxBurst \div 2) - 1) }

BaseAttempts(l) ==
    b_stats[l].tx_packets + b_stats[l].tx_dropped + b_stats[l].alloc_failed

\* generation loop: generate_baseline_packet until one allocation fails
BaseGen(l) ==
    /\ prog = "baseline" /\ b_pc[l] = "gen" /\ ~tx_force_quit
    /\ BaseAttempts(l) < MaxSent
    /\ \E want \in BaseBurstSizes :
          LET got == TakeBufs(in_pool, want)
              failed == Len(got) < want
          IN /\ in_pool' = PoolMinus(in_pool, got)
             /\ b_bufs' = [b_bufs EXCEPT ![l] = got]
             /\ b_stats' = [b_stats EXCEPT ![l].alloc_failed =
                                 IF failed THEN @ + 1 ELSE @]
             /\ consecutive_alloc_fails' =
                    [consecutive_alloc_fails EXCEPT ![l] =
                         IF Len(got) > 0 THEN 0 ELSE @ + 1]
             /\ b_delay_us' = [b_delay_us EXCEPT ![l] =
                                  IF failed
                                  THEN AllocPause(consecutive_alloc_fails[l] + 1)
                                  ELSE 0]
             /\ b_pc' = [b_pc EXCEPT ![l] = IF Len(got) > 0 THEN "tx" ELSE "gen"]
    /\ UNCHANGED << prog, f_delay_us, f_zero_run,
                    tx_force_quit, nic_ring, f_pc, f_pkts, f_nb_tx,
                    current_packet_idx, total_packets_sent, total_bytes_sent,
                    b_nb_tx, tx_fail_count >>
    /\ UNCHANGED nonTxVars

\* rte_eth_tx_burst, the zero-return escalation, the statistics
BaseTx(l) ==
    /\ prog = "baseline" /\ b_pc[l] = "tx"
    /\ \E n \in 0..Len(b_bufs[l]) :
          LET fails == IF n = 0 THEN tx_fail_count + 1 ELSE tx_fail_count
              fatal == n = 0 /\ fails >= TxFailLimit
          IN /\ tx_fail_count' = fails
             /\ b_nb_tx' = [b_nb_tx EXCEPT ![l] = n]
             /\ IF fatal
                THEN \* free all packets, force_quit = true, break
                     /\ in_pool' = PoolPlus(in_pool, b_bufs[l])
                     /\ b_bufs' = [b_bufs EXCEPT ![l] = << >>]
                     /\ tx_force_quit' = TRUE
                     /\ b_pc' = [b_pc EXCEPT ![l] = "done"]
                     /\ UNCHANGED << nic_ring, b_stats >>
                ELSE /\ nic_ring' = nic_ring \cup Range(AcceptedHead(b_bufs[l], n))
                     /\ b_stats' = [b_stats EXCEPT ![l].tx_packets = @ + n]
                     /\ b_pc' = [b_pc EXCEPT ![l] = "free"]
                     /\ UNCHANGED << in_pool, b_bufs, tx_force_quit >>
    /\ UNCHANGED << prog, f_delay_us, f_zero_run, b_delay_us,
                    f_pc, f_pkts, f_nb_tx, current_packet_idx,
                    total_packets_sent, total_bytes_sent, consecutive_alloc_fails >>
    /\ UNCHANGED nonTxVars

\* if (nb_tx < actual_burst) { tx_dropped += ...; free bufs[nb_tx..actual_burst) }
BaseFree(l) ==
    /\ prog = "baseline" /\ b_pc[l] = "free"
    /\ in_pool' = PoolPlus(in_pool, UnsentTail(b_bufs[l], b_nb_tx[l]))
    /\ b_stats' = [b_stats EXCEPT ![l].tx_dropped = @ + (Len(b_bufs[l]) - b_nb_tx[l])]
    /\ b_bufs' = [b_bufs EXCEPT ![l] = << >>]
    /\ b_pc' = [b_pc EXCEPT ![l] = "gen"]
    /\ UNCHANGED << prog, f_delay_us, f_zero_run, b_delay_us,
                    tx_force_quit, nic_ring, f_pc, f_pkts, f_nb_tx,
                    current_packet_idx, total_packets_sent, total_bytes_sent,
                    b_nb_tx, consecutive_alloc_fails, tx_fail_count >>
    /\ UNCHANGED nonTxVars

BaseExit(l) ==
    /\ prog = "baseline" /\ b_pc[l] = "gen" /\ tx_force_quit
    /\ b_pc' = [b_pc EXCEPT ![l] = "done"]
    /\ UNCHANGED << prog, f_delay_us, f_zero_run, b_delay_us,
                    tx_force_quit, in_pool, nic_ring, f_pc, f_pkts, f_nb_tx,
                    current_packet_idx, total_packets_sent, total_bytes_sent,
                    b_bufs, b_nb_tx, b_stats, consecutive_alloc_fails, tx_fail_count >>
    /\ UNCHANGED nonTxVars

(*---------------- send_loop_timed ----------------*)
\* dpdk_pcap_sender_v2 started in timed replay mode.
TimedStart ==
    /\ prog = "timed"
    /\ tx_force_quit = FALSE
    /\ in_pool = [b \in Bufs |-> 1]
    /\ nic_ring = {}
    /\ f_pc = "alloc"
    /\ f_pkts = << >>
    /\ f_nb_tx = 0
    /\ current_packet_idx = 0
    /\ total_packets_sent = 0
    /\ total_bytes_sent = 0
    /\ b_pc = [l \in Lcores |-> "gen"]
    /\ b_bufs = [l \in Lcores |-> << >>]
    /\ b_nb_tx = [l \in Lcores |-> 0]
    /\ b_stats = [l \in Lcores |-> [tx_packets |-> 0, tx_dropped |-> 0, alloc_failed |-> 0]]
    /\ consecutive_alloc_fails = [l \in Lcores |-> 0]
    /\ tx_fail_count = 0
    /\ f_delay_us = 0
    /\ f_zero_run = 0
    /\ b_delay_us = [l \in Lcores |-> 0]

\* send_loop_timed with a loop that moves on to the next record when the
\* allocation fails.
TimedSend_SkipOnAllocFail ==
    /\ prog = "timed" /\ f_pc = "alloc"
    /\ ~tx_force_quit /\ current_packet_idx < NumPcap
    /\ IF FreeBufs(in_pool) = {}
       THEN /\ f_delay_us' = ALLOC_RETRY_US
            /\ current_packet_idx' = current_packet_idx + 1
            /\ UNCHANGED << in_pool, nic_ring, f_nb_tx,
                            total_packets_sent, total_bytes_sent >>
       ELSE LET pkt == TakeBufs(in_pool, 1)
            IN /\ f_delay_us' = 0
               /\ \E n \in 0..1 :
                     /\ f_nb_tx' = n
                     /\ IF n = 1
                        THEN /\ nic_ring' = nic_ring \cup Range(pkt)
                             /\ in_pool' = PoolMinus(in_pool, pkt)
                             /\ total_packets_sent' = total_packets_sent + 1
                             /\ total_bytes_sent' =
                                    total_bytes_sent + PcapLen(current_packet_idx)
                        ELSE \* rte_pktmbuf_free(pkt)
                             UNCHANGED << nic_ring, in_pool, total_packets_sent,
                                          total_bytes_sent >>
               /\ current_packet_idx' = current_packet_idx + 1
    /\ UNCHANGED << prog, f_zero_run, b_delay_us,
                    tx_force_quit, f_pc, f_pkts, b_pc, b_bufs, b_nb_tx,
                    b_stats, consecutive_alloc_fails, tx_fail_count >>
    /\ UNCHANGED nonTxVars

\* One iteration of while (!force_quit && current_packet_idx < num_pcap_packets):
\* the inter-packet delay, rte_pktmbuf_alloc (NULL: rte_delay_us_block(100);
\* continue), the copy, rte_eth_tx_burst of the one packet, the counters or the
\* free, current_packet_idx++.
TimedSend ==
    /\ prog = "timed" /\ f_pc = "alloc"
    /\ ~tx_force_quit /\ current_packet_idx < NumPcap
    /\ IF FreeBufs(in_pool) = {}
       THEN /\ f_delay_us' = ALLOC_RETRY_US
            /\ UNCHANGED << in_pool, nic_ring, f_nb_tx, current_packet_idx,
                            total_packets_sent, total_bytes_sent >>
       ELSE LET pkt == TakeBufs(in_pool, 1)
            IN /\ f_delay_us' = 0
               /\ \E n \in 0..1 :
                     /\ f_nb_tx' = n
                     /\ IF n = 1
                        THEN /\ nic_ring' = nic_ring \cup Range(pkt)
                             /\ in_pool' = PoolMinus(in_pool, pkt)
                             /\ total_packets_sent' = total_packets_sent + 1
                             /\ total_bytes_sent' =
                                    total_bytes_sent + PcapLen(current_packet_idx)
                        ELSE \* rte_pktmbuf_free(pkt)
                             UNCHANGED << nic_ring, in_pool, total_packets_sent,
                                          total_bytes_sent >>
               /\ current_packet_idx' = current_packet_idx + 1
    /\ UNCHANGED << prog, f_zero_run, b_delay_us,
                    tx_force_quit, f_pc, f_pkts, b_pc, b_bufs, b_nb_tx,
                    b_stats, consecutive_alloc_fails, tx_fail_count >>
    /\ UNCHANGED nonTxVars

\* the while condition read as false: "TIMED REPLAY COMPLETE", return
TimedExit ==
    /\ prog = "timed" /\ f_pc = "alloc"
    /\ tx_force_quit \/ current_packet_idx >= NumPcap
    /\ f_pc' = "done"
    /\ UNCHANGED << prog, f_delay_us, f_zero_run, b_delay_us,
                    tx_force_quit, in_pool, nic_ring, f_pkts, f_nb_tx,
                    current_packet_idx, total_packets_sent, total_bytes_sent, b_pc,
                    b_bufs, b_nb_tx, b_stats, consecutive_alloc_fails, tx_fail_count >>
    /\ UNCHANGED nonTxVars

(***************************************************************************)
(* ======================= MIRA DDoS DETECTOR =========================== *)
(* mira/detector_system/mira_ddos_detector.c, with the sketch of           *)
(* mira/detector_system_ml/octosketch.h (the header that has               *)
(* octosketch_merge, which detect_attacks calls).                          *)
(***************************************************************************)

\* Model sizes of the detector world.
NumWorkers == 2
MaxBursts == 2
MaxIters == 3
SketchRows == 2
SketchCols == 2

\* Values of the program.
BURST_SIZE == 2048
SKETCH_SAMPLE_RATE == 32
BASELINE_NETWORK == 168427776
ATTACK_NETWORK == 168428032
ALERT_NONE == 0
ALERT_LOW == 1
ALERT_MEDIUM == 2
ALERT_HIGH == 3
\* rte_get_tsc_hz(): the model clock ticks once per millisecond, so that
\* cycles * 1000.0 / hz is a whole number.  The coordinator reads the clock on
\* even ticks (now is always even); a worker's rte_rdtsc() falls strictly
\* between two coordinator reads and returns the odd tick now + 1.
Hz == 1000

\* uint64_t subtraction wraps; the modulus stands for 2^64 (it is larger than
\* every timestamp of a run).
TscWrap == 1048576
U64Sub(a, b) == (a - b + TscWrap) % TscWrap

Workers == 0..(NumWorkers - 1)
Rows == 0..(SketchRows - 1)
Cols == 0..(SketchCols - 1)

\* rte_eth_rx_burst returns 0 or this many packets.
BurstSizes == {BURST_SIZE}
\* The time from one coordinator read of the clock to the next:
\* rte_delay_us_block(10000) lasts 10 ms or, when the thread is descheduled or
\* the console blocks, longer (50 ms, 100 ms, 5 s).
Delays == {Hz \div 100, Hz \div 20, Hz \div 10, 5 * Hz}

CounterFields ==
    {"total_packets", "total_bytes", "baseline_packets", "attack_packets",
     "tcp_packets", "udp_packets", "icmp_packets", "syn_packets",
     "syn_ack_packets", "http_requests", "dns_queries", "baseline_bytes",
     "attack_bytes", "rx_bursts_total", "rx_bursts_empty"}

\* The counters that the "Final update before exit" block adds.
FinalFields ==
    {"total_packets", "total_bytes", "baseline_packets", "attack_packets",
     "tcp_packets", "udp_packets", "icmp_packets", "syn_packets",
     "syn_ack_packets", "http_requests", "dns_queries"}

ZeroCounters == [f \in CounterFields |-> 0]

\* Packets the NIC delivers in the model.
BaseUdp ==
    [ipv4 |-> TRUE, src_ip |-> BASELINE_NETWORK + 5, proto |-> "udp",
     tcp_flags |-> {}, src_port |-> 40000, dst_port |-> 53, pkt_len |-> 64]
AttUdp ==
    [ipv4 |-> TRUE, src_ip |-> ATTACK_NETWORK + 5, proto |-> "udp",
     tcp_flags |-> {}, src_port |-> 40000, dst_port |-> 9999, pkt_len |-> 64]
AttSyn ==
    [ipv4 |-> TRUE, src_ip |-> ATTACK_NETWORK + 6, proto |-> "tcp",
     tcp_flags |-> {"SYN"}, src_port |-> 40000, dst_port |-> 80, pkt_len |-> 64]
NonIp ==
    [ipv4 |-> FALSE, src_ip |-> 0, proto |-> "none",
     tcp_flags |-> {}, src_port |-> 0, dst_port |-> 0, pkt_len |-> 64]

PacketKinds == {BaseUdp, AttUdp, AttSyn, NonIp}

\* What the NIC's RSS steers to the RX queues during a run: queue 0 receives
\* packets of one kind, the other queues packets of another.
TrafficProfiles ==
    { [w \in Workers |-> IF w = 0 THEN pr[1] ELSE pr[2]] :
        pr \in { << AttUdp, AttUdp >>, << AttUdp, BaseUdp >>, << BaseUdp, BaseUdp >>,
                 << AttSyn, AttUdp >>, << AttSyn, BaseUdp >>, << NonIp, AttSyn >> } }

\* src_ip & NETWORK_MASK (0xFFFFFF00)
NetworkOf(ip) == ip - (ip % 256)
IsBaseline(p) == NetworkOf(p.src_ip) = BASELINE_NETWORK
IsAttack(p) == NetworkOf(p.src_ip) = ATTACK_NETWORK
B2N(b) == IF b THEN 1 ELSE 0

\* What the packet loop adds to the local_* counters for one packet.
PktCount(p) ==
    IF ~p.ipv4 THEN ZeroCounters
    ELSE [f \in CounterFields |->
            CASE f = "total_packets" -> 1
              [] f = "total_bytes" -> p.pkt_len
              [] f = "baseline_packets" -> B2N(IsBaseline(p))
              [] f = "baseline_bytes" -> IF IsBaseline(p) THEN p.pkt_len ELSE 0
              [] f = "attack_packets" -> B2N(IsAttack(p))
              [] f = "attack_bytes" -> IF IsAttack(p) THEN p.pkt_len ELSE 0
              [] f = "tcp_packets" -> B2N(p.proto = "tcp")
              [] f = "syn_packets" -> B2N(p.proto = "tcp" /\ "SYN" \in p.tcp_flags)
              [] f = "syn_ack_packets" ->
                     B2N(p.proto = "tcp" /\ {"SYN", "ACK"} \subseteq p.tcp_flags)
              [] f = "http_requests" -> B2N(p.proto = "tcp" /\ p.dst_port = 80)
              [] f = "udp_packets" -> B2N(p.proto = "udp")
              [] f = "dns_queries" ->
                     B2N(p.proto = "udp" /\ (p.dst_port = 53 \/ p.src_port = 53))
              [] f = "icmp_packets" -> B2N(p.proto = "icmp")
              [] OTHER -> 0]

(*---------------- octosketch.h ----------------*)
\* rte_jhash_1word(key, seed) & SKETCH_MASK: the hash is DPDK's; a fixed
\* function of the key and the row stands for it.
octosketch_hash(key, row) == (key + row * (key \div 256)) % SketchCols

RECURSIVE Xor(_, _, _)
Xor(a, b, bits) ==
    IF bits = 0 THEN 0
    ELSE ((a + b) % 2) + 2 * Xor(a \div 2, b \div 2, bits - 1)

\* ip_idx = ((ip >> 16) ^ (ip & 0xFFFF)) % 65536
IpIdx(ip) == Xor(ip \div 65536, ip % 65536, 16) % 65536

\* The slots of ip_counts[65536] that the model's packets can touch; every
\* other slot stays 0.
IpSlots == { IpIdx(p.src_ip) : p \in { q \in PacketKinds : q.ipv4 } }

EmptySketch ==
    [counters |-> [i \in Rows |-> [j \in Cols |-> 0]],
     ip_counts |-> [s \in IpSlots |-> 0],
     total_updates |-> 0,
     total_bytes |-> 0]

\* octosketch_update_ip(sketch, ip, increment)
octosketch_update_ip(sk, ip, increment) ==
    [sk EXCEPT !.counters = [i \in Rows |->
                               [@[i] EXCEPT ![octosketch_hash(ip, i)] = @ + increment]],
               !.ip_counts[IpIdx(ip)] = @ + increment,
               !.total_updates = @ + increment]

\* octosketch_update_bytes(sketch, bytes)
octosketch_update_bytes(sk, bytes) == [sk EXCEPT !.total_bytes = @ + bytes]

\* octosketch_reset(sketch)
octosketch_reset(sk) == EmptySketch

\* octosketch_merge(dst, src[], num_sketches): dst is zeroed, then every source
\* is added cell by cell.
octosketch_merge(srcs) ==
    [counters |-> [i \in Rows |-> [j \in Cols |->
                     SumOver([w \in Workers |-> srcs[w].counters[i][j]], Workers)]],
     ip_counts |-> [s \in IpSlots |->
                     SumOver([w \in Workers |-> srcs[w].ip_counts[s]], Workers)],
     total_updates |-> SumOver([w \in Workers |-> srcs[w].total_updates], Workers),
     total_bytes |-> SumOver([w \in Workers |-> srcs[w].total_bytes], Workers)]

\* Row sum of a sketch.
RowSum(sk, i) == SumOver(sk.counters[i], Cols)

(*---------------- state of the detector ----------------*)
InitStats ==
    [total_packets |-> 0, total_bytes |-> 0, baseline_packets |-> 0,
     attack_packets |-> 0, tcp_packets |-> 0, udp_packets |-> 0,
     icmp_packets |-> 0, syn_packets |-> 0, syn_ack_packets |-> 0,
     http_requests |-> 0, dns_queries |-> 0, baseline_bytes |-> 0,
     attack_bytes |-> 0, rx_bursts_total |-> 0, rx_bursts_empty |-> 0,
     window_start_tsc |-> 0, last_stats_tsc |-> 0, last_fast_detection_tsc |-> 0,
     first_attack_packet_tsc |-> 0, first_detection_tsc |-> 0,
     last_detection_tsc |-> 0, detection_triggered |-> FALSE,
     packets_until_detection |-> 0, bytes_until_detection |-> 0,
     detection_latency_ms |-> 0, min_detection_latency_ms |-> 0,
     max_detection_latency_ms |-> 0, sum_detection_latencies_ms |-> 0,
     total_detection_events |-> 0,
     detections_under_20ms |-> 0, detections_20_30ms |-> 0,
     detections_30_40ms |-> 0, detections_40_50ms |-> 0,
     detections_over_50ms |-> 0,
     udp_flood_detections |-> 0, syn_flood_detections |-> 0,
     icmp_flood_detections |-> 0, http_flood_detections |-> 0,
     total_flood_detections |-> 0,
     alert_level |-> ALERT_NONE, alert_reason |-> << >>]

\* The threads are launched and none has run yet; the TSC is not 0.
DetZero ==
    /\ now = 2
    /\ force_quit = FALSE
    /\ w_pc = [w \in Workers |-> "rx"]
    /\ local = [w \in Workers |-> ZeroCounters]
    /\ sample_counter = [w \in Workers |-> 0]
    /\ g_worker_stats = [w \in Workers |-> ZeroCounters]
    /\ window_baseline_pkts = [w \in Workers |-> 0]
    /\ window_attack_pkts = [w \in Workers |-> 0]
    /\ window_baseline_bytes = [w \in Workers |-> 0]
    /\ window_attack_bytes = [w \in Workers |-> 0]
    /\ last_window_reset_tsc = 0
    /\ g_stats = InitStats
    /\ g_worker_sketch_attack = [w \in Workers |-> EmptySketch]
    /\ g_merged_sketch_attack = EmptySketch
    /\ c_pc = "init"
    /\ cur_tsc = 0
    /\ c_iters = 0

DetStart ==
    /\ DetZero
    /\ rx_kind \in TrafficProfiles

(*---------------- worker_thread ----------------*)
\* k sampled packets of one source: octosketch_update_ip(.., ip, RATE) and
\* octosketch_update_bytes(.., pkt_len * RATE) once per sampled packet; the k
\* calls add RATE to the same cells, k * RATE in all.
SketchSampled(sk, ip, pkt_len, k) ==
    IF k = 0 THEN sk
    ELSE octosketch_update_bytes(
             octosketch_update_ip(sk, ip, k * SKETCH_SAMPLE_RATE),
             k * pkt_len * SKETCH_SAMPLE_RATE)

\* Sampling switched off: every attack packet updates the sketch.
SampledOf_Every(sc, n) == n

\* How many of the next n attack packets have sample_counter % RATE == 0.
SampledOf(sc, n) == ((sc + n) \div SKETCH_SAMPLE_RATE) - (sc \div SKETCH_SAMPLE_RATE)

\* The local_* counters after a burst of n packets p.
LocalAfter(loc, p, n) ==
    [f \in CounterFields |->
        loc[f] + n * PktCount(p)[f] + (IF f = "rx_bursts_total" THEN 1 ELSE 0)]

\* "Update per-worker stats", "Update window stats", "Reset local counters"
\* with the local counters loc.
Publish(w, loc) ==
    /\ g_worker_stats' = [g_worker_stats EXCEPT ![w] =
                              [f \in CounterFields |-> @[f] + loc[f]]]
    /\ window_baseline_pkts' =
           [window_baseline_pkts EXCEPT ![w] = @ + loc.baseline_packets]
    /\ window_baseline_bytes' =
           [window_baseline_bytes EXCEPT ![w] = @ + loc.baseline_bytes]
    /\ window_attack_pkts' =
           [window_attack_pkts EXCEPT ![w] = @ + loc.attack_packets]
    /\ window_attack_bytes' =
           [window_attack_bytes EXCEPT ![w] = @ + loc.attack_bytes]
    /\ local' = [local EXCEPT ![w] = ZeroCounters]

\* One iteration of while (!force_quit): rte_eth_rx_burst and the burst
\* counters; for an empty burst the continue; for a burst of n packets the
\* packet loop (classification, local counters, sampled sketch updates) and the
\* publication of the local counters.  When the packet loop reads
\* first_attack_packet_tsc == 0 on the first attack packet, the step ends
\* between that read and the store of the timestamp; WorkerStamp does the
\* store and what follows it.
WorkerRx(w) ==
    /\ w_pc[w] = "rx" /\ ~force_quit
    /\ g_worker_stats[w].rx_bursts_total + local[w].rx_bursts_total < MaxBursts
    /\ \/ \* nb_rx == 0: local_bursts_empty++; continue
          /\ local' = [local EXCEPT ![w].rx_bursts_total = @ + 1,
                                    ![w].rx_bursts_empty = @ + 1]
          /\ UNCHANGED << w_pc, sample_counter, g_worker_sketch_attack,
                          g_worker_stats, window_baseline_pkts, window_attack_pkts,
                          window_baseline_bytes, window_attack_bytes >>
       \/ \E n \in BurstSizes :
             LET p == rx_kind[w]
                 attack == p.ipv4 /\ IsAttack(p)
                 k == IF attack THEN SampledOf(sample_counter[w], n) ELSE 0
             IN IF attack /\ g_stats.first_attack_packet_tsc = 0
                THEN /\ w_pc' = [w_pc EXCEPT ![w] = "stamp"]
                     /\ local' = [local EXCEPT ![w] = LocalAfter(@, p, n)]
                     /\ UNCHANGED << sample_counter, g_worker_sketch_attack,
                                     g_worker_stats, window_baseline_pkts,
                                     window_attack_pkts, window_baseline_bytes,
                                     window_attack_bytes >>
                ELSE /\ sample_counter' = [sample_counter EXCEPT ![w] =
                                               IF attack THEN @ + n ELSE @]
                     /\ g_worker_sketch_attack' =
                            [g_worker_sketch_attack EXCEPT ![w] =
                                 SketchSampled(@, p.src_ip, p.pkt_len, k)]
                     /\ Publish(w, LocalAfter(local[w], p, n))
                     /\ UNCHANGED w_pc
    /\ UNCHANGED << now, force_quit, last_window_reset_tsc, g_stats,
                    g_merged_sketch_attack, c_pc, cur_tsc, c_iters, rx_kind >>
    /\ UNCHANGED << txVars, skVars, ruleVars, fnVars >>

\* g_stats.first_attack_packet_tsc = rte_rdtsc() after the check read 0, then
\* the rest of the packet loop (the sampled sketch updates of the burst's
\* attack packets) and the publication of the local counters
WorkerStamp(w) ==
    /\ w_pc[w] = "stamp"
    /\ g_stats' = [g_stats EXCEPT !.first_attack_packet_tsc = now + 1]
    /\ LET p == rx_kind[w]
           n == local[w].attack_packets
       IN /\ sample_counter' = [sample_counter EXCEPT ![w] = @ + n]
          /\ g_worker_sketch_attack' =
                 [g_worker_sketch_attack EXCEPT ![w] =
                      SketchSampled(@, p.src_ip, p.pkt_len,
                                    SampledOf(sample_counter[w], n))]
    /\ Publish(w, local[w])
    /\ w_pc' = [w_pc EXCEPT ![w] = "rx"]
    /\ UNCHANGED << now, force_quit, last_window_reset_tsc,
                    g_merged_sketch_attack, c_pc, cur_tsc, c_iters, rx_kind >>
    /\ UNCHANGED << txVars, skVars, ruleVars, fnVars >>

\* while (!force_quit) read as false: "Final update before exit", return
WorkerExit(w) ==
    /\ w_pc[w] = "rx" /\ force_quit
    /\ g_worker_stats' = [g_worker_stats EXCEPT ![w] =
                              [f \in CounterFields |->
                                  IF f \in FinalFields THEN @[f] + local[w][f]
                                  ELSE @[f]]]
    /\ w_pc' = [w_pc EXCEPT ![w] = "done"]
    /\ UNCHANGED << now, force_quit, local, sample_counter, window_baseline_pkts,
                    window_attack_pkts, window_baseline_bytes, window_attack_bytes,
                    last_window_reset_tsc, g_stats, g_worker_sketch_attack,
                    g_merged_sketch_attack, c_pc, cur_tsc, c_iters, rx_kind >>
    /\ UNCHANGED << txVars, skVars, ruleVars, fnVars >>

\* signal_handler: force_quit = true
DetSignal ==
    /\ ~force_quit
    /\ force_quit' = TRUE
    /\ UNCHANGED << now, w_pc, local, sample_counter, g_worker_stats,
                    window_baseline_pkts, window_attack_pkts, window_baseline_bytes,
                    window_attack_bytes, last_window_reset_tsc, g_stats,
                    g_worker_sketch_attack, g_merged_sketch_attack, c_pc, cur_tsc,
                    c_iters, rx_kind >>
    /\ UNCHANGED << txVars, skVars, ruleVars, fnVars >>

(*---------------- detect_attacks ----------------*)
\* count / window_sec > pps, with window_sec = dur / hz
Over(count, pps, dur) == count * Hz > pps * dur

\* if (g_stats.alert_level < X) g_stats.alert_level = X;
RaiseTo_Overwrite(level, severity) == severity
RaiseTo(level, severity) == IF level < severity THEN severity ELSE level

\* if (window_att_pkts > 0 && attack_pps > 50000)
AttackGate_Open(win) == TRUE
AttackGate_Low(win) == win.att > 0 /\ Over(win.att, 40000, win.dur)
AttackGate(win) == win.att > 0 /\ Over(win.att, 50000, win.dur)

\* the pps thresholds of the four flood rules
RuleThreshold(rule) ==
    CASE rule = "UDP" -> 20000
      [] rule = "SYN" -> 30000
      [] rule = "ICMP" -> 10000
      [] rule = "HTTP" -> 15000

\* attack_types of the multi-attack rule
AttackTypes(win) ==
    B2N(Over(win.udp, 10000, win.dur)) + B2N(Over(win.syn, 10000, win.dur))
        + B2N(Over(win.icmp, 5000, win.dur))

\* The rule block of detect_attacks on the window sums win: the alert level
\* it leaves and the clauses it appends to alert_reason, in order.
MiraRulePass(win) ==
    LET gate == AttackGate(win)
        udp_f == gate /\ Over(win.udp, RuleThreshold("UDP"), win.dur)
        syn_f == gate /\ Over(win.syn, RuleThreshold("SYN"), win.dur)
        icmp_f == gate /\ Over(win.icmp, RuleThreshold("ICMP"), win.dur)
        http_f == gate /\ Over(win.http, RuleThreshold("HTTP"), win.dur)
        multi_f == gate /\ AttackTypes(win) >= 2
                        /\ ~(udp_f \/ syn_f \/ icmp_f \/ http_f)
        l1 == IF udp_f THEN ALERT_HIGH ELSE ALERT_NONE
        l2 == IF syn_f THEN RaiseTo(l1, ALERT_HIGH) ELSE l1
        l3 == IF icmp_f THEN RaiseTo(l2, ALERT_HIGH) ELSE l2
        l4 == IF http_f THEN RaiseTo(l3, ALERT_HIGH) ELSE l3
        l5 == IF multi_f THEN RaiseTo(l4, ALERT_HIGH) ELSE l4
    IN [level |-> l5,
        fired |-> (IF udp_f THEN << "UDP" >> ELSE << >>)
                  \o (IF syn_f THEN << "SYN" >> ELSE << >>)
                  \o (IF icmp_f THEN << "ICMP" >> ELSE << >>)
                  \o (IF http_f THEN << "HTTP" >> ELSE << >>)
                  \o (IF multi_f THEN << "MULTI" >> ELSE << >>)]

\* latency_cycles = cur_tsc - g_stats.first_attack_packet_tsc (uint64_t)
LatencyCycles_Zero(cur, since) == 0
LatencyCycles(cur, since) == U64Sub(cur, since)

\* (double)cycles * 1000.0 / hz
LatencyMs(cycles) == (cycles * 1000) \div Hz

\* The tracking block with a last bin that ends at 60 ms.
DetectionTracking_OpenLastBin(s, cur) ==
    LET current_latency_ms ==
            IF s.first_attack_packet_tsc > 0
            THEN LatencyMs(LatencyCycles(cur, s.first_attack_packet_tsc))
            ELSE 0
        inter == LatencyMs(LatencyCycles(cur, s.last_detection_tsc))
    IN IF ~s.detection_triggered
       THEN [s EXCEPT !.total_detection_events = @ + 1,
                      !.first_detection_tsc = cur,
                      !.last_detection_tsc = cur,
                      !.detection_triggered = TRUE,
                      !.packets_until_detection = s.total_packets,
                      !.bytes_until_detection = s.total_bytes,
                      !.detection_latency_ms = current_latency_ms,
                      !.min_detection_latency_ms = current_latency_ms,
                      !.max_detection_latency_ms = current_latency_ms,
                      !.sum_detection_latencies_ms = current_latency_ms]
       ELSE [s EXCEPT !.total_detection_events = @ + 1,
                      !.min_detection_latency_ms = IF inter < @ THEN inter ELSE @,
                      !.max_detection_latency_ms = IF inter > @ THEN inter ELSE @,
                      !.sum_detection_latencies_ms = @ + inter,
                      !.detections_under_20ms = IF inter < 20 THEN @ + 1 ELSE @,
                      !.detections_20_30ms =
                          IF inter >= 20 /\ inter < 30 THEN @ + 1 ELSE @,
                      !.detections_30_40ms =
                          IF inter >= 30 /\ inter < 40 THEN @ + 1 ELSE @,
                      !.detections_40_50ms =
                          IF inter >= 40 /\ inter < 50 THEN @ + 1 ELSE @,
                      !.detections_over_50ms = IF inter >= 50 /\ inter < 60 THEN @ + 1 ELSE @,
                      !.last_detection_tsc = cur]

\* "Detection timestamp tracking - EVERY detection"
DetectionTracking(s, cur) ==
    LET current_latency_ms ==
            IF s.first_attack_packet_tsc > 0
            THEN LatencyMs(LatencyCycles(cur, s.first_attack_packet_tsc))
            ELSE 0
        inter == LatencyMs(LatencyCycles(cur, s.last_detection_tsc))
    IN IF ~s.detection_triggered
       THEN [s EXCEPT !.total_detection_events = @ + 1,
                      !.first_detection_tsc = cur,
                      !.last_detection_tsc = cur,
                      !.detection_triggered = TRUE,
                      !.packets_until_detection = s.total_packets,
                      !.bytes_until_detection = s.total_bytes,
                      !.detection_latency_ms = current_latency_ms,
                      !.min_detection_latency_ms = current_latency_ms,
                      !.max_detection_latency_ms = current_latency_ms,
                      !.sum_detection_latencies_ms = current_latency_ms]
       ELSE [s EXCEPT !.total_detection_events = @ + 1,
                      !.min_detection_latency_ms = IF inter < @ THEN inter ELSE @,
                      !.max_detection_latency_ms = IF inter > @ THEN inter ELSE @,
                      !.sum_detection_latencies_ms = @ + inter,
                      !.detections_under_20ms = IF inter < 20 THEN @ + 1 ELSE @,
                      !.detections_20_30ms =
                          IF inter >= 20 /\ inter < 30 THEN @ + 1 ELSE @,
                      !.detections_30_40ms =
                          IF inter >= 30 /\ inter < 40 THEN @ + 1 ELSE @,
                      !.detections_40_50ms =
                          IF inter >= 40 /\ inter < 50 THEN @ + 1 ELSE @,
                      !.detections_over_50ms = IF inter >= 50 THEN @ + 1 ELSE @,
                      !.last_detection_tsc = cur]

\* elapsed >= FAST_DETECTION_INTERVAL (0.05 s)
FastPassDue(cur, s) == (cur - s.last_fast_detection_tsc) * 100 >= 5 * Hz

\* not (window_sec < 0.1)
WindowLongEnough(cur, s) == (cur - s.window_start_tsc) * 10 >= Hz

\* window_sec >= DETECTION_WINDOW_SEC (5.0 s)
WindowExpired(cur, s) == (cur - s.window_start_tsc) >= 5 * Hz

\* The sums detect_attacks takes: the window arrays for baseline and attack,
\* g_worker_stats for the protocol counts.
WindowSums(cur) ==
    [base |-> SumOver(window_baseline_pkts, Workers),
     att |-> SumOver(window_attack_pkts, Workers),
     syn |-> SumOver([w \in Workers |-> g_worker_stats[w].syn_packets], Workers),
     udp |-> SumOver([w \in Workers |-> g_worker_stats[w].udp_packets], Workers),
     icmp |-> SumOver([w \in Workers |-> g_worker_stats[w].icmp_packets], Workers),
     http |-> SumOver([w \in Workers |-> g_worker_stats[w].http_requests], Workers),
     dns |-> SumOver([w \in Workers |-> g_worker_stats[w].dns_queries], Workers),
     dur |-> cur - g_stats.window_start_tsc]

\* g_stats after the rule block: level, reason, per-rule counters.
AfterRules(s, cur, rp) ==
    [s EXCEPT !.last_fast_detection_tsc = cur,
              !.alert_level = rp.level,
              !.alert_reason = rp.fired,
              !.udp_flood_detections = @ + B2N("UDP" \in Range(rp.fired)),
              !.syn_flood_detections = @ + B2N("SYN" \in Range(rp.fired)),
              !.icmp_flood_detections = @ + B2N("ICMP" \in Range(rp.fired)),
              !.http_flood_detections = @ + B2N("HTTP" \in Range(rp.fired)),
              !.total_flood_detections = @ + B2N("MULTI" \in Range(rp.fired))]

\* A loop test that does not read force_quit.
LoopTop_NoQuit(t) ==
    /\ cur_tsc' = t
    /\ c_iters < MaxIters
    /\ c_iters' = c_iters + 1
    /\ c_pc' = "detect"

(*---------------- coordinator_thread ----------------*)
\* while (!force_quit) { uint64_t cur_tsc = rte_rdtsc(); ...   and, when the
\* condition fails, print_stats(port, rte_rdtsc(), hz) after the loop; t is
\* what the clock shows.
LoopTop(t) ==
    /\ cur_tsc' = t
    /\ IF force_quit
       THEN /\ c_pc' = "fstats"
            /\ UNCHANGED c_iters
       ELSE /\ c_iters < MaxIters
            /\ c_iters' = c_iters + 1
            /\ c_pc' = "detect"

\* init_tsc = rte_rdtsc(); the four timestamps start there; first loop test
CoordInit ==
    /\ c_pc = "init"
    /\ g_stats' = [g_stats EXCEPT !.window_start_tsc = now,
                                  !.last_stats_tsc = now,
                                  !.last_fast_detection_tsc = now]
    /\ last_window_reset_tsc' = now
    /\ LoopTop(now)
    /\ UNCHANGED << now, force_quit, w_pc, local, sample_counter, g_worker_stats,
                    window_baseline_pkts, window_attack_pkts, window_baseline_bytes,
                    window_attack_bytes, g_worker_sketch_attack,
                    g_merged_sketch_attack, rx_kind >>
    /\ UNCHANGED << txVars, skVars, ruleVars, fnVars >>

\* detect_attacks(cur_tsc, hz)
CoordDetect ==
    /\ c_pc = "detect"
    /\ c_pc' = "stats"
    /\ IF ~FastPassDue(cur_tsc, g_stats)
       THEN UNCHANGED << g_stats, g_worker_sketch_attack, g_merged_sketch_attack >>
       ELSE IF ~WindowLongEnough(cur_tsc, g_stats)
       THEN /\ g_stats' = [g_stats EXCEPT !.last_fast_detection_tsc = cur_tsc,
                                          !.alert_level = ALERT_NONE,
                                          !.alert_reason = << >>]
            /\ UNCHANGED << g_worker_sketch_attack, g_merged_sketch_attack >>
       ELSE LET win == WindowSums(cur_tsc)
                rp == MiraRulePass(win)
                s1 == AfterRules(g_stats, cur_tsc, rp)
                s2 == IF rp.fired # << >> THEN DetectionTracking(s1, cur_tsc) ELSE s1
                expired == WindowExpired(cur_tsc, g_stats)
            IN /\ g_stats' = IF expired
                             THEN [s2 EXCEPT !.window_start_tsc = cur_tsc]
                             ELSE s2
               /\ g_merged_sketch_attack' =
                      IF win.att > 0 THEN octosketch_merge(g_worker_sketch_attack)
                      ELSE g_merged_sketch_attack
               /\ g_worker_sketch_attack' =
                      IF expired
                      THEN [w \in Workers |-> octosketch_reset(g_worker_sketch_attack[w])]
                      ELSE g_worker_sketch_attack
    /\ UNCHANGED << now, force_quit, w_pc, local, sample_counter, g_worker_stats,
                    window_baseline_pkts, window_attack_pkts, window_baseline_bytes,
                    window_attack_bytes, last_window_reset_tsc, cur_tsc,
                    c_iters, rx_kind >>
    /\ UNCHANGED << txVars, skVars, ruleVars, fnVars >>

\* elapsed >= STATS_INTERVAL_SEC (5.0 s)
StatsDue(cur, s) == (cur - s.last_stats_tsc) >= 5 * Hz

\* print_stats up to the output: the interval check, last_stats_tsc, the
\* aggregation of the worker counters into g_stats
CoordStats ==
    /\ c_pc \in {"stats", "fstats"}
    /\ IF ~StatsDue(cur_tsc, g_stats)
       THEN /\ c_pc' = IF c_pc = "stats" THEN "sleep" ELSE "done"
            /\ UNCHANGED g_stats
       ELSE /\ c_pc' = IF c_pc = "stats" THEN "memset" ELSE "fmemset"
            /\ g_stats' = [f \in DOMAIN g_stats |->
                             IF f \in CounterFields
                             THEN SumOver([w \in Workers |-> g_worker_stats[w][f]],
                                          Workers)
                             ELSE IF f = "last_stats_tsc" THEN cur_tsc
                             ELSE g_stats[f]]
    /\ UNCHANGED << now, force_quit, w_pc, local, sample_counter, g_worker_stats,
                    window_baseline_pkts, window_attack_pkts, window_baseline_bytes,
                    window_attack_bytes, last_window_reset_tsc,
                    g_worker_sketch_attack, g_merged_sketch_attack, cur_tsc,
                    c_iters, rx_kind >>
    /\ UNCHANGED << txVars, skVars, ruleVars, fnVars >>

\* print_stats, "Reset instantaneous counters": the four memsets and
\* last_window_reset_tsc
CoordMemset ==
    /\ c_pc \in {"memset", "fmemset"}
    /\ window_baseline_pkts' = [w \in Workers |-> 0]
    /\ window_attack_pkts' = [w \in Workers |-> 0]
    /\ window_baseline_bytes' = [w \in Workers |-> 0]
    /\ window_attack_bytes' = [w \in Workers |-> 0]
    /\ last_window_reset_tsc' = cur_tsc
    /\ c_pc' = IF c_pc = "memset" THEN "sleep" ELSE "done"
    /\ UNCHANGED << now, force_quit, w_pc, local, sample_counter, g_worker_stats,
                    g_stats, g_worker_sketch_attack,
                    g_merged_sketch_attack, cur_tsc, c_iters, rx_kind >>
    /\ UNCHANGED << txVars, skVars, ruleVars, fnVars >>

\* rte_delay_us_block(10000), then the next loop test
CoordSleep ==
    /\ c_pc = "sleep"
    /\ \E d \in Delays :
          /\ now' = now + d
          /\ LoopTop(now + d)
    /\ UNCHANGED << force_quit, w_pc, local, sample_counter, g_worker_stats,
                    window_baseline_pkts, window_attack_pkts, window_baseline_bytes,
                    window_attack_bytes, last_window_reset_tsc, g_stats,
                    g_worker_sketch_attack, g_merged_sketch_attack, rx_kind >>
    /\ UNCHANGED << txVars, skVars, ruleVars, fnVars >>

(***************************************************************************)
(* ============ THE PER-WORKER SKETCH, STORE BY STORE ==================== *)
(* octosketch_update_ip as the worker runs it on a sampled attack packet   *)
(* and octosketch_reset as detect_attacks runs it on every worker's sketch *)
(* at a window boundary, at the granularity of the single loads and stores *)
(* (the counters are plain uint32_t/uint64_t, the two threads share them   *)
(* without a lock).  When the window expires is decided by the clock alone *)
(* (CoordDetect), so here the boundary may fall at any point of a worker's *)
(* progress.                                                               *)
(***************************************************************************)
MaxSkUpdates == 1
MaxResets == 1

\* Source addresses of the sampled attack packets.
AttackIps == { p.src_ip : p \in { q \in PacketKinds : q.ipv4 /\ IsAttack(q) } }

SkStart ==
    /\ u_pc = [w \in Workers |-> [at |-> "idle"]]
    /\ r_pc = [at |-> "idle", w |-> 0, n |-> 0]

\* worker_thread: sample_counter % SKETCH_SAMPLE_RATE == 0, the call of
\* octosketch_update_ip(my_sketch, src_ip, SKETCH_SAMPLE_RATE) begins
SkUpdateBegin(w) ==
    /\ u_pc[w].at = "idle"
    /\ g_worker_sketch_attack[w].total_updates < MaxSkUpdates * SKETCH_SAMPLE_RATE
    /\ \E ip \in AttackIps :
          u_pc' = [u_pc EXCEPT ![w] = [at |-> "load", i |-> 0, ip |-> ip, val |-> 0]]
    /\ UNCHANGED << r_pc, detVars, txVars, ruleVars, fnVars >>

\* sketch->counters[i][col] += increment: the load
SkRowLoad(w) ==
    /\ u_pc[w].at = "load"
    /\ u_pc' = [u_pc EXCEPT ![w].at = "store",
                            ![w].val = g_worker_sketch_attack[w].counters[u_pc[w].i]
                                           [octosketch_hash(u_pc[w].ip, u_pc[w].i)]]
    /\ UNCHANGED << r_pc, detVars, txVars, ruleVars, fnVars >>

\* sketch->counters[i][col] += increment: the store, and i++
SkRowStore(w) ==
    /\ u_pc[w].at = "store"
    /\ g_worker_sketch_attack' =
           [g_worker_sketch_attack EXCEPT
               ![w].counters[u_pc[w].i][octosketch_hash(u_pc[w].ip, u_pc[w].i)] =
                   u_pc[w].val + SKETCH_SAMPLE_RATE]
    /\ u_pc' = [u_pc EXCEPT ![w].at = IF u_pc[w].i + 1 < SketchRows THEN "load" ELSE "ip",
                            ![w].i = @ + 1]
    /\ UNCHANGED << r_pc, txVars, ruleVars, fnVars, now, force_quit, w_pc, local,
                    sample_counter, g_worker_stats, window_baseline_pkts,
                    window_attack_pkts, window_baseline_bytes, window_attack_bytes,
                    last_window_reset_tsc, g_stats, g_merged_sketch_attack, c_pc,
                    cur_tsc, c_iters, rx_kind >>

\* sketch->ip_counts[ip_idx] += increment
SkIpCount(w) ==
    /\ u_pc[w].at = "ip"
    /\ g_worker_sketch_attack' =
           [g_worker_sketch_attack EXCEPT
               ![w].ip_counts[IpIdx(u_pc[w].ip)] = @ + SKETCH_SAMPLE_RATE]
    /\ u_pc' = [u_pc EXCEPT ![w].at = "total"]
    /\ UNCHANGED << r_pc, txVars, ruleVars, fnVars, now, force_quit, w_pc, local,
                    sample_counter, g_worker_stats, window_baseline_pkts,
                    window_attack_pkts, window_baseline_bytes, window_attack_bytes,
                    last_window_reset_tsc, g_stats, g_merged_sketch_attack, c_pc,
                    cur_tsc, c_iters, rx_kind >>

\* sketch->total_updates += increment, the return, and
\* octosketch_update_bytes(my_sketch, pkt_len * SKETCH_SAMPLE_RATE)
SkTotal(w) ==
    /\ u_pc[w].at = "total"
    /\ g_worker_sketch_attack' =
           [g_worker_sketch_attack EXCEPT
               ![w].total_updates = @ + SKETCH_SAMPLE_RATE,
               ![w].total_bytes = @ + AttUdp.pkt_len * SKETCH_SAMPLE_RATE]
    /\ u_pc' = [u_pc EXCEPT ![w] = [at |-> "idle"]]
    /\ UNCHANGED << r_pc, txVars, ruleVars, fnVars, now, force_quit, w_pc, local,
                    sample_counter, g_worker_stats, window_baseline_pkts,
                    window_attack_pkts, window_baseline_bytes, window_attack_bytes,
                    last_window_reset_tsc, g_stats, g_merged_sketch_attack, c_pc,
                    cur_tsc, c_iters, rx_kind >>

\* detect_attacks: window_sec >= DETECTION_WINDOW_SEC, the loop
\* for (i = 0; i < NUM_RX_QUEUES; i++) octosketch_reset(&g_worker_sketch_attack[i])
\* begins
SkResetBegin ==
    /\ r_pc.at = "idle"
    /\ r_pc.n < MaxResets
    /\ r_pc' = [at |-> "counters", w |-> 0, n |-> r_pc.n + 1]
    /\ UNCHANGED << u_pc, detVars, txVars, ruleVars, fnVars >>

\* octosketch_reset: memset(sketch->counters, 0, ..)
SkResetCounters ==
    /\ r_pc.at = "counters"
    /\ g_worker_sketch_attack' =
           [g_worker_sketch_attack EXCEPT
               ![r_pc.w].counters = [i \in Rows |-> [j \in Cols |-> 0]]]
    /\ r_pc' = [r_pc EXCEPT !.at = "ip_counts"]
    /\ UNCHANGED << u_pc, txVars, ruleVars, fnVars, now, force_quit, w_pc, local,
                    sample_counter, g_worker_stats, window_baseline_pkts,
                    window_attack_pkts, window_baseline_bytes, window_attack_bytes,
                    last_window_reset_tsc, g_stats, g_merged_sketch_attack, c_pc,
                    cur_tsc, c_iters, rx_kind >>

\* octosketch_reset: memset(sketch->ip_counts, 0, ..)
SkResetIpCounts ==
    /\ r_pc.at = "ip_counts"
    /\ g_worker_sketch_attack' =
           [g_worker_sketch_attack EXCEPT
               ![r_pc.w].ip_counts = [s \in IpSlots |-> 0]]
    /\ r_pc' = [r_pc EXCEPT !.at = "totals"]
    /\ UNCHANGED << u_pc, txVars, ruleVars, fnVars, now, force_quit, w_pc, local,
                    sample_counter, g_worker_stats, window_baseline_pkts,
                    window_attack_pkts, window_baseline_bytes, window_attack_bytes,
                    last_window_reset_tsc, g_stats, g_merged_sketch_attack, c_pc,
                    cur_tsc, c_iters, rx_kind >>

\* octosketch_reset: total_updates = 0; total_bytes = 0; then the next worker
SkResetTotals ==
    /\ r_pc.at = "totals"
    /\ g_worker_sketch_attack' =
           [g_worker_sketch_attack EXCEPT ![r_pc.w].total_updates = 0,
                                          ![r_pc.w].total_bytes = 0]
    /\ r_pc' = IF r_pc.w + 1 < NumWorkers
               THEN [r_pc EXCEPT !.at = "counters", !.w = @ + 1]
               ELSE [r_pc EXCEPT !.at = "idle", !.w = 0]
    /\ UNCHANGED << u_pc, txVars, ruleVars, fnVars, now, force_quit, w_pc, local,
                    sample_counter, g_worker_stats, window_baseline_pkts,
                    window_attack_pkts, window_baseline_bytes, window_attack_bytes,
                    last_window_reset_tsc, g_stats, g_merged_sketch_attack, c_pc,
                    cur_tsc, c_iters, rx_kind >>

(***************************************************************************)
(* ================= THE RULE PASSES ON DRAWN INPUTS ===================== *)
(* MiraRulePass (detect_attacks) and HttpRulePass (detect_http_flood of    *)
(* http_flood_advance/detector_system/http_flood_detector.c) are functions *)
(* of the window counters; here they are applied to counters drawn from    *)
(* sets that straddle every threshold.                                     *)
(***************************************************************************)
\* detect_http_flood, from the minimum-packet test to the last rule: the
\* alert level it leaves and the clauses it writes to alert_reason; st holds
\* the counters of g_stats, elapsed the window length in ticks.
HttpRulePass(st, elapsed) ==
    LET enough == ~(st.http_packets < 1000)
        r1 == /\ enough
              /\ st.attack_packets > 0
              /\ st.attack_packets * 10 > 3 * st.http_packets
              /\ st.attack_packets * Hz > 5000 * elapsed
        r2 == /\ enough
              /\ st.http_packets > 0
              /\ st.top_url_count * 100 > 80 * st.http_packets
        r3 == /\ enough
              /\ st.unique_ips > 50
              /\ st.http_packets * Hz < 200 * st.unique_ips * elapsed
        r4 == enough /\ st.heavy_hitters > 10
        r5 == /\ enough
              /\ st.http_packets > 0
              /\ st.get_requests * 100 > 98 * st.http_packets
        l1 == IF r1 THEN ALERT_HIGH ELSE ALERT_NONE
        l2 == IF r2 THEN RaiseTo(l1, ALERT_MEDIUM) ELSE l1
        l3 == IF r3 THEN RaiseTo(l2, ALERT_MEDIUM) ELSE l2
        l4 == IF r4 THEN RaiseTo(l3, ALERT_LOW) ELSE l3
        l5 == IF r5 THEN RaiseTo(l4, ALERT_LOW) ELSE l4
    IN [level |-> l5,
        fired |-> (IF r1 THEN << "HIGH ATTACK RATE" >> ELSE << >>)
                  \o (IF r2 THEN << "URL CONCENTRATION" >> ELSE << >>)
                  \o (IF r3 THEN << "BOTNET PATTERN" >> ELSE << >>)
                  \o (IF r4 THEN << "HEAVY HITTERS" >> ELSE << >>)
                  \o (IF r5 THEN << "METHOD ANOMALY" >> ELSE << >>)]

\* Window sums of the MIRA detector over a 0.1 s window: each count lies at,
\* just above or well away from the count that makes its rate equal a
\* threshold.
MiraInputs ==
    { [which |-> "mira",
       win |-> [base |-> 0, att |-> a, syn |-> s, udp |-> u, icmp |-> i,
                http |-> h, dns |-> 0, dur |-> Hz \div 10]] :
        a \in {0, 5000, 5001}, s \in {0, 1001, 3001}, u \in {0, 1001, 2000, 2001},
        i \in {0, 501, 1001}, h \in {0, 1501} }

\* Counters of the HTTP flood detector when its first window of one second
\* ends; process_packet counts an attack packet, a GET and a path only on a
\* packet it has counted as HTTP, and a new source at most once per packet.
HttpInputs ==
    { r \in [which : {"http"},
             st : [http_packets : {999, 20000},
                   attack_packets : {0, 6000, 6001},
                   top_url_count : {0, 16000, 16001},
                   unique_ips : {50, 101},
                   heavy_hitters : {10, 11},
                   get_requests : {0, 19600, 19601}],
             elapsed : {Hz}] :
        /\ r.st.attack_packets <= r.st.http_packets
        /\ r.st.top_url_count <= r.st.http_packets
        /\ r.st.get_requests <= r.st.http_packets
        /\ r.st.unique_ips <= r.st.http_packets }

RuleStart ==
    /\ rule_in \in MiraInputs \cup HttpInputs
    /\ rule_out = [done |-> FALSE]

\* the rule block of detect_attacks on the drawn window sums
ApplyMiraRules ==
    /\ rule_in.which = "mira" /\ ~rule_out.done
    /\ rule_out' = [done |-> TRUE,
                    level |-> MiraRulePass(rule_in.win).level,
                    fired |-> MiraRulePass(rule_in.win).fired]
    /\ UNCHANGED << rule_in, txVars, detVars, skVars, fnVars >>

\* the rule block of detect_http_flood on the drawn counters
ApplyHttpRules ==
    /\ rule_in.which = "http" /\ ~rule_out.done
    /\ rule_out' = [done |-> TRUE,
                    level |-> HttpRulePass(rule_in.st, rule_in.elapsed).level,
                    fired |-> HttpRulePass(rule_in.st, rule_in.elapsed).fired]
    /\ UNCHANGED << rule_in, txVars, detVars, skVars, fnVars >>

(***************************************************************************)
(* ============ DETECTION-EVENT STATISTICS ON DRAWN EVENTS =============== *)
(* The "Detection timestamp tracking" block of detect_attacks is a         *)
(* function of g_stats and cur_tsc; here it is applied to sequences of     *)
(* detection events whose spacing is drawn, one event per step.            *)
(***************************************************************************)
MaxHistEvents == 5

\* Spacing of two consecutive detection events, in ms: one per histogram bin.
InterLatencies == {10, 25, 35, 45, 60}

\* Time from the first attack packet to the first detection, in ms.
FirstLatencies == {7, 10, 80}

HistIdle == hist = [on |-> FALSE]

\* The first attack packet has been stamped and no rule has fired yet.
HistStart ==
    hist = [on |-> TRUE,
            s |-> [InitStats EXCEPT !.first_attack_packet_tsc = 1],
            lat |-> << >>]

\* detect_attacks, attack_detected with !detection_triggered
HistFirstDetection ==
    /\ hist.on /\ ~hist.s.detection_triggered
    /\ \E l0 \in FirstLatencies :
          hist' = [hist EXCEPT
                     !.s = DetectionTracking(@, hist.s.first_attack_packet_tsc
                                                  + (l0 * Hz) \div 1000)]
    /\ UNCHANGED << txVars, detVars, skVars, ruleVars, rxb, scan, parse, pacer, replay, adapt, txq, sig, mrg, dwin, phs, fill >>

\* detect_attacks, attack_detected with detection_triggered: the next event
\* comes d ms after the last one
HistNextDetection ==
    /\ hist.on /\ hist.s.detection_triggered
    /\ Len(hist.lat) < MaxHistEvents
    /\ \E d \in InterLatencies :
          hist' = [hist EXCEPT
                     !.s = DetectionTracking(@, hist.s.last_detection_tsc
                                                  + (d * Hz) \div 1000),
                     !.lat = Append(@, d)]
    /\ UNCHANGED << txVars, detVars, skVars, ruleVars, rxb, scan, parse, pacer, replay, adapt, txq, sig, mrg, dwin, phs, fill >>


(***************************************************************************)
(* ================= THE RX PATH, BUFFER BY BUFFER ======================== *)
(* The packet loops of worker_thread (MIRA) and detection_loop (HTTP       *)
(* detector): which mbuf the loop holds and when it goes back to the pool. *)
(***************************************************************************)
RxBurstMax == 2

\* The lcores that poll an RX queue: every worker in MIRA, one lcore in the
\* HTTP detector.
RxLcores(p) == IF p = "mira" THEN Workers ELSE {0}

RxIdle == rxb = [on |-> FALSE]

RxStart ==
    \E p \in {"mira", "http"} :
       rxb = [on |-> TRUE, prog |-> p,
              pool |-> [b \in Bufs |-> 1],
              bufs |-> [w \in Workers |-> << >>],
              pkts |-> [w \in Workers |-> << >>],
              i |-> [w \in Workers |-> 0]]

\* rte_pktmbuf_free(m)
RxFree(pool, m) == [pool EXCEPT ![m] = @ + 1]

\* worker_thread, ether_type != IPv4: rte_pktmbuf_free(m); continue;
DropNonIpv4_Leak(pool, m) == pool
DropNonIpv4(pool, m) == RxFree(pool, m)

\* nb_rx = rte_eth_rx_burst(port, queue, bufs, BURST_SIZE) with nb_rx > 0: the
\* NIC hands over buffers of the pool, filled with frames of any kind.  (With
\* nb_rx == 0 the loop continues and nothing changes.)
RxBurst(w) ==
    /\ rxb.on /\ w \in RxLcores(rxb.prog)
    /\ rxb.bufs[w] = << >>
    /\ \E n \in 1..RxBurstMax :
          /\ n <= Cardinality(FreeBufs(rxb.pool))
          /\ \E ks \in [1..n -> PacketKinds] :
                rxb' = [rxb EXCEPT !.bufs[w] = TakeBufs(rxb.pool, n),
                                   !.pkts[w] = ks,
                                   !.pool = PoolMinus(@, TakeBufs(rxb.pool, n)),
                                   !.i[w] = 0]
    /\ UNCHANGED << txVars, detVars, skVars, ruleVars, hist, scan, parse, pacer, replay, adapt, txq, sig, mrg, dwin, phs, fill >>

\* One pass of for (i = 0; i < nb_rx; i++): the packet bufs[i] is classified
\* (MIRA) or handed to process_packet (HTTP) and freed; after the last packet
\* the loop is left and bufs[] is dead.
RxPacket(w) ==
    /\ rxb.on /\ w \in RxLcores(rxb.prog)
    /\ rxb.i[w] < Len(rxb.bufs[w])
    /\ LET m == rxb.bufs[w][rxb.i[w] + 1]
           p == rxb.pkts[w][rxb.i[w] + 1]
           last == rxb.i[w] + 1 = Len(rxb.bufs[w])
       IN rxb' = [rxb EXCEPT
                    !.pool = IF rxb.prog = "mira" /\ ~p.ipv4
                             THEN DropNonIpv4(@, m)
                             ELSE RxFree(@, m),
                    !.i[w] = IF last THEN 0 ELSE @ + 1,
                    !.bufs[w] = IF last THEN << >> ELSE @,
                    !.pkts[w] = IF last THEN << >> ELSE @]
    /\ UNCHANGED << txVars, detVars, skVars, ruleVars, hist, scan, parse, pacer, replay, adapt, txq, sig, mrg, dwin, phs, fill >>

(***************************************************************************)
(* ===================== QUIC PAYLOAD SCAN ================================ *)
(* parse_quic_for_acks(payload, len, ..) of the QUIC detector on drawn     *)
(* payloads.  A payload is its first byte, four bytes that a long header   *)
(* reads as the version, and a byte pattern that repeats from offset 5 on. *)
(***************************************************************************)
QUIC_LONG_HEADER_BIT == 128
QUIC_FIXED_BIT == 64
QUIC_FRAME_ACK == 2
QUIC_FRAME_ACK_ECN == 3

MaxPayload == 80

\* Byte values of the pattern: PADDING, ACK, ACK_ECN, another frame type, and
\* two bytes whose top bits select the 2-byte and 4-byte integer encodings.
ScanBytes == {0, QUIC_FRAME_ACK, QUIC_FRAME_ACK_ECN, 6, 65, 130}
FirstBytes == {QUIC_FIXED_BIT, QUIC_FIXED_BIT + QUIC_LONG_HEADER_BIT}
\* payload[1..4]: QUIC v1 and a version that is not QUIC's.
VersionBytes == { << 0, 0, 0, 1 >>, << 0, 0, 0, 2 >> }
Payloads == [first : FirstBytes, version : VersionBytes, pat : [1..2 -> ScanBytes]]
PayloadLens == {1, 6, 14, 40, MaxPayload}

\* payload[i]
PayloadByte(pl, i) ==
    IF i = 0 THEN pl.first
    ELSE IF i <= 4 THEN pl.version[i]
    ELSE pl.pat[(i % 2) + 1]

\* first_byte & QUIC_LONG_HEADER_BIT
LongHeader(pl) == PayloadByte(pl, 0) >= QUIC_LONG_HEADER_BIT

\* "Skip header to get to frames": whether the function goes on to the scan,
\* the offset the scan starts at, and the payload offsets read on the way.
HeaderSkip(pl, len) ==
    IF len < 2 THEN [scan |-> FALSE, offset |-> 0, reads |-> {}]
    ELSE IF LongHeader(pl)
    THEN IF len < 7 THEN [scan |-> FALSE, offset |-> 0, reads |-> {0}]
         ELSE LET dcid_len == PayloadByte(pl, 5)
                  o1 == 6 + dcid_len
              IN IF o1 >= len
                 THEN [scan |-> FALSE, offset |-> o1, reads |-> {0, 5}]
                 ELSE [scan |-> TRUE,
                       offset |-> o1 + 1 + PayloadByte(pl, o1) + 2,
                       reads |-> {0, 5, o1}]
    ELSE [scan |-> TRUE, offset |-> 1 + 8 + 4, reads |-> {0}]

IsAckFrame(t) == t = QUIC_FRAME_ACK \/ t = QUIC_FRAME_ACK_ECN

\* The "simplified extraction" of the largest acknowledged packet number at
\* payload[offset + 1 ..]; prev when the first byte's top bits are 11.
LargestAck(pl, offset, prev) ==
    LET first == PayloadByte(pl, offset + 1)
        top == first \div 64
    IN CASE top = 0 -> first
         [] top = 1 -> (first % 64) * 256 + PayloadByte(pl, offset + 2)
         [] top = 2 -> (first % 64) * 16777216 + PayloadByte(pl, offset + 2) * 65536
                         + PayloadByte(pl, offset + 3) * 256 + PayloadByte(pl, offset + 4)
         [] OTHER -> prev

\* The payload offsets one loop iteration at offset reads.
IterReads(pl, len, offset) ==
    LET t == PayloadByte(pl, offset)
        top == PayloadByte(pl, offset + 1) \div 64
    IN {offset} \cup
       (IF IsAckFrame(t) /\ offset + 8 < len
        THEN CASE top = 0 -> {offset + 1}
               [] top = 1 -> {offset + 1, offset + 2}
               [] top = 2 -> (offset + 1)..(offset + 4)
               [] OTHER -> {offset + 1}
        ELSE {})

\* The offset after one loop iteration at offset.
IterAdvance(pl, offset) ==
    LET t == PayloadByte(pl, offset)
    IN IF IsAckFrame(t) THEN offset + 20
       ELSE IF t = 0 THEN offset + 1
       ELSE offset + 10

ScanIdle == scan = [on |-> FALSE]

\* parse_quic_for_acks has been called: *ack_count = 0; *largest_ack = 0;
ScanStart ==
    \E pl \in Payloads, len \in PayloadLens :
       scan = [on |-> TRUE, pc |-> "hdr", payload |-> pl, len |-> len,
               offset |-> 0, iters |-> 0, ack_count |-> 0, largest_ack |-> 0]

\* from the len < 2 test to the first test of while (offset < len - 1)
ScanHeader ==
    /\ scan.on /\ scan.pc = "hdr"
    /\ LET h == HeaderSkip(scan.payload, scan.len)
       IN scan' = [scan EXCEPT
                     !.offset = h.offset,
                     !.pc = IF h.scan /\ h.offset < scan.len - 1
                            THEN "scan" ELSE "done"]
    /\ UNCHANGED << txVars, detVars, skVars, ruleVars, hist, rxb, parse, pacer, replay, adapt, txq, sig, mrg, dwin, phs, fill >>

\* one iteration of while (offset < len - 1), to the next test of the
\* condition or the break
ScanIter ==
    /\ scan.on /\ scan.pc = "scan"
    /\ LET pl == scan.payload
           ack == IsAckFrame(PayloadByte(pl, scan.offset))
           next == IterAdvance(pl, scan.offset)
       IN scan' = [scan EXCEPT
                     !.ack_count = IF ack THEN @ + 1 ELSE @,
                     !.largest_ack = IF ack /\ scan.offset + 8 < scan.len
                                     THEN LargestAck(pl, scan.offset, @) ELSE @,
                     !.offset = next,
                     !.iters = @ + 1,
                     !.pc = IF next >= scan.len \/ ~(next < scan.len - 1)
                            THEN "done" ELSE "scan"]
    /\ UNCHANGED << txVars, detVars, skVars, ruleVars, hist, rxb, parse, pacer, replay, adapt, txq, sig, mrg, dwin, phs, fill >>

(***************************************************************************)
(* ================= WHAT THE PACKET PARSERS READ ======================== *)
(* The header reads of worker_thread (MIRA) and of process_packet with     *)
(* is_quic_packet and parse_quic_for_acks (QUIC detector) on a drawn       *)
(* frame, as offsets from the start of the frame.  The parsers take the    *)
(* IPv4 header to be 20 bytes long.                                        *)
(***************************************************************************)
EthTypeOff == 12..13
IpProtoOff == {23}
IpSrcOff == 26..29
L4Off == 14 + 20
UdpSrcPortOff == L4Off..(L4Off + 1)
L4DstPortOff == (L4Off + 2)..(L4Off + 3)
UdpLenOff == (L4Off + 4)..(L4Off + 5)
TcpFlagsOff == {L4Off + 13}
UdpPayloadOff == L4Off + 8

\* Frame lengths: a runt, a bare Ethernet header, Ethernet + IPv4, Ethernet +
\* IPv4 + UDP, a minimum-size frame and a frame with a long payload.
FrameLens == {10, 14, 34, 42, 60, UdpPayloadOff + MaxPayload}
\* udp_hdr->dgram_len as it arrives; it need not agree with the frame length.
\* (Values below 8, for which dgram_len - sizeof(struct rte_udp_hdr) wraps
\* around in uint32_t, are not drawn.)
DgramLens == {8, 9, 18, 8 + MaxPayload}

Frames ==
    [len : FrameLens, ipv4 : BOOLEAN, proto : {"tcp", "udp", "icmp"},
     quic_port : BOOLEAN, dgram_len : DgramLens, payload : Payloads]

\* worker_thread: ether_type; src_addr and next_proto_id; tcp_flags and
\* dst_port, or dst_port and src_port.
MiraReads(f) ==
    EthTypeOff \cup
    (IF ~f.ipv4 THEN {}
     ELSE IpSrcOff \cup IpProtoOff \cup
          (CASE f.proto = "tcp" -> TcpFlagsOff \cup L4DstPortOff
             [] f.proto = "udp" -> L4DstPortOff \cup UdpSrcPortOff
             [] OTHER -> {}))

\* version == 0x00000001 || (version & 0xffffff00) == 0xff000000, on the four
\* bytes payload[1..4] (big-endian)
IsQuicVersion(pl) ==
    \/ << PayloadByte(pl, 1), PayloadByte(pl, 2), PayloadByte(pl, 3),
          PayloadByte(pl, 4) >> = << 0, 0, 0, 1 >>
    \/ << PayloadByte(pl, 1), PayloadByte(pl, 2), PayloadByte(pl, 3) >> = << 255, 0, 0 >>

\* is_quic_packet(payload, len): the verdict and the payload offsets read.
IsQuicPacket(pl, len) ==
    IF len < 1 THEN [quic |-> FALSE, reads |-> {}]
    ELSE IF (PayloadByte(pl, 0) \div QUIC_FIXED_BIT) % 2 = 0
    THEN [quic |-> FALSE, reads |-> {0}]
    ELSE IF LongHeader(pl)
    THEN IF len < 5 THEN [quic |-> FALSE, reads |-> {0}]
         ELSE [quic |-> IsQuicVersion(pl), reads |-> 0..4]
    ELSE [quic |-> TRUE, reads |-> {0}]

\* The payload offsets the scan loop of parse_quic_for_acks reads from offset on.
RECURSIVE ScanReads(_, _, _)
ScanReads(pl, len, offset) ==
    IF ~(offset < len - 1) THEN {}
    ELSE IterReads(pl, len, offset) \cup ScanReads(pl, len, IterAdvance(pl, offset))

\* parse_quic_for_acks(payload, len, ..): payload offsets read.
AckParseReads(pl, len) ==
    LET h == HeaderSkip(pl, len)
    IN h.reads \cup (IF h.scan THEN ScanReads(pl, len, h.offset) ELSE {})

\* process_packet of the QUIC detector.
QuicReads(f) ==
    EthTypeOff \cup
    (IF ~f.ipv4 THEN {}
     ELSE IpProtoOff \cup
          (IF f.proto # "udp" THEN {}
           ELSE L4DstPortOff \cup UdpSrcPortOff \cup
                (IF ~f.quic_port THEN {}
                 ELSE LET payload_len == f.dgram_len - 8
                          q == IsQuicPacket(f.payload, payload_len)
                      IN UdpLenOff \cup
                         { UdpPayloadOff + o : o \in q.reads } \cup
                         (IF ~q.quic THEN {}
                          ELSE IpSrcOff \cup
                               { UdpPayloadOff + o :
                                   o \in AckParseReads(f.payload, payload_len) }))))

ParseIdle == parse = [on |-> FALSE]

\* A frame has arrived in an mbuf of the detector.
ParseStart ==
    \E f \in Frames, d \in {"mira", "quic"} :
       parse = [on |-> TRUE, prog |-> d, frame |-> f, done |-> FALSE, reads |-> {}]

MiraParse ==
    /\ parse.on /\ parse.prog = "mira" /\ ~parse.done
    /\ parse' = [parse EXCEPT !.done = TRUE, !.reads = MiraReads(parse.frame)]
    /\ UNCHANGED << txVars, detVars, skVars, ruleVars, hist, rxb, scan, pacer, replay, adapt, txq, sig, mrg, dwin, phs, fill >>

QuicParse ==
    /\ parse.on /\ parse.prog = "quic" /\ ~parse.done
    /\ parse' = [parse EXCEPT !.done = TRUE, !.reads = QuicReads(parse.frame)]
    /\ UNCHANGED << txVars, detVars, skVars, ruleVars, hist, rxb, scan, pacer, replay, adapt, txq, sig, mrg, dwin, phs, fill >>

(***************************************************************************)
(* ===================== RATE LIMITING OF THE SEND LOOPS ================== *)
(* The "Rate limiting" block of send_loop_fast, send_loop_adaptive and the *)
(* v1 sender's send_loop, on drawn windows.  Time is in microseconds and   *)
(* nanoseconds; the doubles of the code hold these integers exactly.       *)
(***************************************************************************)
TARGET_GBPS == 12
PACER_MAX_SLEEP_NS == 100000

\* target_bytes_per_sec = TARGET_GBPS * 1e9 / 8.0, per microsecond
TargetBytesPerUs == (TARGET_GBPS * 1000) \div 8

\* elapsed_sec of the tick, in microseconds: within the window, at its end
\* and beyond.
PacerElapsedUs == {0, 10, 1000, 250000, 999999, 1000000, 1200000}
\* bytes_sent_in_window minus target_bytes_per_sec * elapsed_sec
PacerDeltas ==
    {-1000, 0, 1, 1499, 1500, 15000, 148500, 149999, 150000, 150001, 300000, 1000000}
\* get_jitter_multiplier(jitter_pct), in thousandths; 1000 in the loops
\* without jitter
JitterMults == {900, 1000, 1100}

\* bytes_expected = target_bytes_per_sec * elapsed_sec
BytesExpected(elapsed_us) == TargetBytesPerUs * elapsed_us

\* sleep_ns = (uint64_t)((bytes_over * 8.0 * 1e9) / (TARGET_GBPS * 1e9)), then
\* sleep_ns = (uint64_t)(sleep_ns * jitter_mult)
SleepNs(bytes_over, jitter) == (((bytes_over * 8) \div TARGET_GBPS) * jitter) \div 1000

\* if (sleep_ns > 0 && sleep_ns < 100000) rte_delay_us_block(sleep_ns / 1000);
\* the microseconds slept
DelayUs(sleep_ns) ==
    IF sleep_ns > 0 /\ sleep_ns < PACER_MAX_SLEEP_NS THEN sleep_ns \div 1000 ELSE 0

PacerIdle == pacer = [on |-> FALSE]

\* A loop iteration has sent its burst and read the clock.
PacerStart ==
    \E e \in PacerElapsedUs, d \in PacerDeltas, j \in JitterMults,
       p \in {"fast", "adaptive"} :
       /\ BytesExpected(e) + d >= 0
       /\ p = "fast" => j = 1000
       /\ pacer = [on |-> TRUE, prog |-> p, ticked |-> FALSE, elapsed_us |-> e,
                   bytes_sent_in_window |-> BytesExpected(e) + d,
                   jitter |-> j, over |-> FALSE, sleep_ns |-> 0, slept_us |-> 0]

\* the whole block: the window reset after 1 s, or the overshoot test, the
\* sleep time and the sleep
PacerTick ==
    /\ pacer.on /\ ~pacer.ticked
    /\ LET over == /\ pacer.elapsed_us < 1000000
                   /\ pacer.bytes_sent_in_window > BytesExpected(pacer.elapsed_us)
           ns == IF over
                 THEN SleepNs(pacer.bytes_sent_in_window
                                  - BytesExpected(pacer.elapsed_us), pacer.jitter)
                 ELSE 0
       IN pacer' = [pacer EXCEPT
                      !.ticked = TRUE,
                      !.over = over,
                      !.bytes_sent_in_window =
                           IF pacer.elapsed_us >= 1000000 THEN 0 ELSE @,
                      !.elapsed_us = IF pacer.elapsed_us >= 1000000 THEN 0 ELSE @,
                      !.sleep_ns = ns,
                      !.slept_us = IF over THEN DelayUs(ns) ELSE 0]
    /\ UNCHANGED << txVars, detVars, skVars, ruleVars, hist, rxb, scan, parse, replay, adapt, txq, sig, mrg, dwin, phs, fill >>

(***************************************************************************)
(* ================= INTER-PACKET DELAY OF THE TIMED REPLAY =============== *)
(* send_loop_timed, "Calculate delay based on timestamp difference", on    *)
(* drawn capture gaps.  Times are in microseconds.                         *)
(***************************************************************************)
MAX_DELAY_US == 10000000

\* pkt_data->timestamp minus prev_timestamp; captures can be out of order.
CaptureGapsUs == {-5, 0, 1, 1000, 5000000, 9999999, 10000000, 10000001, 30000000}
\* replay_cfg.speedup_factor (1..1000 is accepted on the command line)
Speedups == {1, 2, 10}

\* timeval_diff_us(t1, t2) with t2 - t1 = gap
timeval_diff_us(gap) ==
    IF gap < 0 THEN 0
    ELSE IF gap > MAX_DELAY_US THEN MAX_DELAY_US
    ELSE gap

\* (uint64_t)(delta_us * jitter_mult), jitter_mult in thousandths
ApplyJitter(delta_us, jitter) ==
    (delta_us \div 1000) * jitter + ((delta_us % 1000) * jitter) \div 1000

\* delta_us after the speedup and the jitter
ReplayDelta(gap, speedup, jitter) ==
    ApplyJitter(timeval_diff_us(gap) \div speedup, jitter)

\* if (delta_us > 0 && delta_us < 10000000) rte_delay_us_block(delta_us);
\* the microseconds slept
ReplaySleep(delta_us) ==
    IF delta_us > 0 /\ delta_us < MAX_DELAY_US THEN delta_us ELSE 0

ReplayIdle == replay = [on |-> FALSE]

\* The loop is at a packet that is not the first of the capture.
ReplayStart ==
    \E g \in CaptureGapsUs, sp \in Speedups, j \in JitterMults :
       replay = [on |-> TRUE, gap_us |-> g, speedup |-> sp, jitter |-> j,
                 waited |-> FALSE, delta_us |-> 0, slept_us |-> 0]

\* if (!first_packet) { ... rte_delay_us_block(delta_us); }
ReplayWait ==
    /\ replay.on /\ ~replay.waited
    /\ LET d == ReplayDelta(replay.gap_us, replay.speedup, replay.jitter)
       IN replay' = [replay EXCEPT !.waited = TRUE,
                                   !.delta_us = d,
                                   !.slept_us = ReplaySleep(d)]
    /\ UNCHANGED << txVars, detVars, skVars, ruleVars, hist, rxb, scan, parse, pacer, adapt, txq, sig, mrg, dwin, phs, fill >>

(***************************************************************************)
(* ================= PHASE SCHEDULE OF THE ADAPTIVE SENDER ================ *)
(* send_loop_adaptive: the head of the main loop (duration limit and phase *)
(* switch).  One tick of the TSC stands for one second (hz = 1).           *)
(***************************************************************************)
MaxPhases == 3
MaxPhaseTsc == 7
PhaseDurations == 1..2

AdaptIdle == adapt = [on |-> FALSE]

\* adaptive_cfg after the options are parsed and the phases are loaded, and
\* the locals of send_loop_adaptive before the first iteration.
AdaptStart ==
    \E n \in 1..MaxPhases, lm \in BOOLEAN, lim \in {0, 5} :
      \E d \in [0..(n - 1) -> PhaseDurations] :
         adapt = [on |-> TRUE, num_phases |-> n, loop_mode |-> lm,
                  duration_sec |-> lim, phases |-> d,
                  tsc |-> 0, total_start_tsc |-> 0,
                  current_phase |-> 0, phase_start_tsc |-> 0,
                  phase_duration_tsc |-> d[0], running |-> TRUE]

\* if (duration_sec > 0 && cur_tsc - total_start_tsc >= total_duration_tsc) break;
DurationLimit(a, cur) ==
    a.duration_sec > 0 /\ cur - a.total_start_tsc >= a.duration_sec

\* if (num_phases > 0 && cur_tsc - phase_start_tsc >= phase_duration_tsc)
PhaseElapsed(a, cur) ==
    a.num_phases > 0 /\ cur - a.phase_start_tsc >= a.phase_duration_tsc

\* One iteration of while (!force_quit) that reads the TSC dt ticks after the
\* previous one and finds the duration limit reached.
AdaptStop ==
    /\ adapt.on /\ adapt.running
    /\ \E dt \in 0..1 :
         LET cur == adapt.tsc + dt IN
         /\ cur <= MaxPhaseTsc
         /\ DurationLimit(adapt, cur)
         /\ adapt' = [adapt EXCEPT !.tsc = cur, !.running = FALSE]
    /\ UNCHANGED << txVars, detVars, skVars, ruleVars, hist, rxb, scan, parse, pacer, replay, txq, sig, mrg, dwin, phs, fill >>

\* One iteration of while (!force_quit) below the duration limit: the phase
\* switch; the burst that follows does not touch the schedule.
AdaptIter ==
    /\ adapt.on /\ adapt.running
    /\ \E dt \in 0..1 :
         LET cur == adapt.tsc + dt
             next == (adapt.current_phase + 1) % adapt.num_phases
         IN
         /\ cur <= MaxPhaseTsc
         /\ ~DurationLimit(adapt, cur)
         /\ adapt' = IF PhaseElapsed(adapt, cur)
                     THEN [adapt EXCEPT !.tsc = cur,
                                        !.current_phase = next,
                                        !.phase_start_tsc = cur,
                                        !.phase_duration_tsc = adapt.phases[next]]
                     ELSE [adapt EXCEPT !.tsc = cur]
    /\ UNCHANGED << txVars, detVars, skVars, ruleVars, hist, rxb, scan, parse, pacer, replay, txq, sig, mrg, dwin, phs, fill >>

(***************************************************************************)
(* ================= TX QUEUES OF THE TRAFFIC GENERATORS ================== *)
(* The worker loops of benign_traffic_dpdk.c, baseline_traffic_dpdk.c and  *)
(* _old/udp_http_baseline.c, launched on every worker lcore by             *)
(* rte_eal_mp_remote_launch.  A call of rte_eth_tx_burst takes time: it is *)
(* entered and returned from in separate steps.                            *)
(***************************************************************************)
MaxTxCalls == 3
Generators == {"benign", "baseline", "udp_http"}

\* The queue argument of rte_eth_tx_burst in the worker on lcore l:
\* the literal 0 in lcore_benign_traffic and lcore_baseline_traffic,
\* queue_id = lcore_id - 1 in lcore_main_loop.
TxQueueOf(gen, l) == IF gen = "udp_http" THEN l - 1 ELSE 0

TxqIdle == txq = [on |-> FALSE]

\* The workers are launched and are in their loops.
TxqStart ==
    \E g \in Generators :
       txq = [on |-> TRUE, gen |-> g,
              pc |-> [l \in Lcores |-> "loop"],
              queue |-> [l \in Lcores |-> 0],
              calls |-> [l \in Lcores |-> 0]]

\* The worker on lcore l has a burst and calls rte_eth_tx_burst.
TxqCall(l) ==
    /\ txq.on /\ txq.pc[l] = "loop" /\ txq.calls[l] < MaxTxCalls
    /\ txq' = [txq EXCEPT !.pc[l] = "in_tx", !.queue[l] = TxQueueOf(txq.gen, l)]
    /\ UNCHANGED << txVars, detVars, skVars, ruleVars, hist, rxb, scan, parse, pacer, replay, adapt, sig, mrg, dwin, phs, fill >>

\* rte_eth_tx_burst returns; statistics and frees are local to the lcore.
TxqReturn(l) ==
    /\ txq.on /\ txq.pc[l] = "in_tx"
    /\ txq' = [txq EXCEPT !.pc[l] = "loop", !.calls[l] = @ + 1]
    /\ UNCHANGED << txVars, detVars, skVars, ruleVars, hist, rxb, scan, parse, pacer, replay, adapt, sig, mrg, dwin, phs, fill >>

(***************************************************************************)
(* ================= SIGNAL HANDLER AND LOG FILE ========================== *)
(* http_flood_detector.c and quic_optimistic_ack_detector.c: signal_handler,*)
(* dual_printf, detection_loop and the end of main.  The detector runs on  *)
(* the main thread; the handler interrupts it between any two steps.       *)
(***************************************************************************)
MaxSignals == 2
MaxLogLines == 3
LogDetectors == {"http", "quic"}

SigIdle == sig = [on |-> FALSE]

\* main() has installed the handler and called open_log_file(), which leaves
\* g_log_file NULL when fopen fails.
SigStart ==
    \E d \in LogDetectors, l \in {"null", "open"} :
       sig = [on |-> TRUE, det |-> d, force_quit |-> FALSE,
              g_log_file |-> l, closed_by |-> "nobody",
              handler_stdio |-> 0, signals |-> 0,
              pc |-> "loop", lines |-> 0, stale_write |-> FALSE]

\* signal_handler(signum), signum being SIGINT or SIGTERM: printf, set
\* force_quit, and if g_log_file: two fprintf, fflush, fclose, NULL, printf.
SignalHandler ==
    /\ sig.on /\ sig.pc # "returned" /\ sig.signals < MaxSignals
    /\ sig' = IF sig.g_log_file = "open"
              THEN [sig EXCEPT !.signals = @ + 1,
                               !.force_quit = TRUE,
                               !.handler_stdio = @ + 5,
                               !.g_log_file = "null",
                               !.closed_by = "handler"]
              ELSE [sig EXCEPT !.signals = @ + 1,
                               !.force_quit = TRUE,
                               !.handler_stdio = @ + 1]
    /\ UNCHANGED << txVars, detVars, skVars, ruleVars, hist, rxb, scan, parse, pacer, replay, adapt, txq, mrg, dwin, phs, fill >>

\* detection_loop: an iteration that reaches print_stats; dual_printf has
\* printed to stdout and tests if (g_log_file).
DualPrintfTest ==
    /\ sig.on /\ sig.pc = "loop" /\ ~sig.force_quit /\ sig.lines < MaxLogLines
    /\ sig' = [sig EXCEPT !.pc = IF sig.g_log_file = "open" THEN "log" ELSE "loop"]
    /\ UNCHANGED << txVars, detVars, skVars, ruleVars, hist, rxb, scan, parse, pacer, replay, adapt, txq, mrg, dwin, phs, fill >>

\* dual_printf: vfprintf(g_log_file, ...) and fflush.  If the handler has
\* closed the stream in between, the write is on a closed FILE (undefined:
\* the line may or may not appear).
DualPrintfWrite ==
    /\ sig.on /\ sig.pc = "log"
    /\ \E n \in IF sig.g_log_file = "open" THEN {1} ELSE {0, 1} :
         sig' = [sig EXCEPT !.pc = "loop",
                            !.lines = @ + n,
                            !.stale_write = @ \/ sig.g_log_file # "open"]
    /\ UNCHANGED << txVars, detVars, skVars, ruleVars, hist, rxb, scan, parse, pacer, replay, adapt, txq, mrg, dwin, phs, fill >>

\* while (!force_quit) is left.
DetectionLoopExit ==
    /\ sig.on /\ sig.pc = "loop" /\ sig.force_quit
    /\ sig' = [sig EXCEPT !.pc = "final"]
    /\ UNCHANGED << txVars, detVars, skVars, ruleVars, hist, rxb, scan, parse, pacer, replay, adapt, txq, mrg, dwin, phs, fill >>

\* main after detection_loop: printf, print_stats (dual_printf), cms_free,
\* printf, return 0.  close_log_file() is not called.
MainReturn ==
    /\ sig.on /\ sig.pc = "final"
    /\ sig' = [sig EXCEPT !.pc = "returned",
                          !.lines = IF sig.g_log_file = "open" THEN @ + 1 ELSE @]
    /\ UNCHANGED << txVars, detVars, skVars, ruleVars, hist, rxb, scan, parse, pacer, replay, adapt, txq, mrg, dwin, phs, fill >>

(***************************************************************************)
(* ================= SKETCH MERGE ========================================= *)
(* octosketch_merge(dst, src[], num_sketches) on source sketches built by  *)
(* octosketch_update_ip, merged whole, in any order, and part by part.     *)
(***************************************************************************)
MergeSources == 3
MaxMerges == 2
\* How many times a source has applied update(key, 1)
UpdateCounts == {0, 500, 1000}

\* n calls of octosketch_update_ip(sk, ip, 1): the first n \div 2 of them, then
\* the others (the test of the total makes the first half be computed first)
RECURSIVE UpdateTimes(_, _, _)
UpdateTimes(sk, ip, n) ==
    IF n = 0 THEN sk
    ELSE IF n = 1 THEN octosketch_update_ip(sk, ip, 1)
    ELSE LET half == UpdateTimes(sk, ip, n \div 2)
         IN IF half.total_updates >= 0
            THEN UpdateTimes(half, ip, n - (n \div 2))
            ELSE sk

\* octosketch_query_ip(sketch, ip): the minimum over the rows
octosketch_query_ip(sk, ip) ==
    LET cells == { sk.counters[i][octosketch_hash(ip, i)] : i \in Rows }
    IN CHOOSE c \in cells : \A d \in cells : c <= d

\* The body of the loop over s: dst += src[s], cell by cell
MergeAdd(dst, s) ==
    [counters |-> [i \in Rows |-> [j \in Cols |->
                      dst.counters[i][j] + s.counters[i][j]]],
     ip_counts |-> [x \in IpSlots |-> dst.ip_counts[x] + s.ip_counts[x]],
     total_updates |-> dst.total_updates + s.total_updates,
     total_bytes |-> dst.total_bytes + s.total_bytes]

\* for (s = from; s < num_sketches; s++) dst += src[s]  (src is 1-based here)
RECURSIVE MergeLoop(_, _, _, _)
MergeLoop(dst, src, from, num_sketches) ==
    IF from > num_sketches THEN dst
    ELSE MergeLoop(MergeAdd(dst, src[from]), src, from + 1, num_sketches)

\* octosketch_merge without the memsets of dst
octosketch_merge_NoZero(dst, src, num_sketches) ==
    MergeLoop(dst, src, 1, num_sketches)

\* octosketch_merge with dst = src[s] in place of dst += src[s]
octosketch_merge_Last(dst, src, num_sketches) ==
    IF num_sketches = 0 THEN EmptySketch ELSE src[num_sketches]

\* octosketch_merge(dst, src, num_sketches): zero dst, then add every source
octosketch_merge_n(dst, src, num_sketches) ==
    MergeLoop(EmptySketch, src, 1, num_sketches)

MergeIdle == mrg = [on |-> FALSE]

\* Every source has applied update(key, 1) count times to an empty sketch; the
\* destination is the zero-initialised static sketch.
MergeStart ==
    \E k \in [1..MergeSources -> AttackIps], c \in [1..MergeSources -> UpdateCounts] :
       mrg = [on |-> TRUE, key |-> k, count |-> c,
              src |-> [s \in 1..MergeSources |-> UpdateTimes(EmptySketch, k[s], c[s])],
              dst |-> EmptySketch, merges |-> 0, parts |-> 1]

\* The orders of a set of source indices
Orders(S) ==
    { o \in [1..Cardinality(S) -> S] : \A i, j \in DOMAIN o : i # j => o[i] # o[j] }

\* One call of octosketch_merge on all the sources, in some order of src[].
MergeAll ==
    /\ mrg.on /\ mrg.merges < MaxMerges
    /\ \E o \in Orders(1..MergeSources) :
         mrg' = [mrg EXCEPT !.merges = @ + 1, !.parts = 1,
                            !.dst = octosketch_merge_n(
                                        mrg.dst,
                                        [s \in 1..MergeSources |-> mrg.src[o[s]]],
                                        MergeSources)]
    /\ UNCHANGED << txVars, detVars, skVars, ruleVars, hist, rxb, scan, parse, pacer, replay, adapt, txq, sig, dwin, phs, fill >>

\* The sources split in two parts, each part merged in some order into a
\* sketch of its own, and the two results merged into the destination.
MergeParts ==
    /\ mrg.on /\ mrg.merges < MaxMerges
    /\ \E A \in (SUBSET (1..MergeSources)) \ {{}, 1..MergeSources} :
         LET B == (1..MergeSources) \ A IN
         \E oa \in Orders(A), ob \in Orders(B), swap \in BOOLEAN :
           LET pa == octosketch_merge_n(EmptySketch,
                        [s \in 1..Cardinality(A) |-> mrg.src[oa[s]]], Cardinality(A))
               pb == octosketch_merge_n(EmptySketch,
                        [s \in 1..Cardinality(B) |-> mrg.src[ob[s]]], Cardinality(B))
           IN mrg' = [mrg EXCEPT !.merges = @ + 1, !.parts = 2,
                                 !.dst = octosketch_merge_n(
                                             mrg.dst,
                                             IF swap THEN << pb, pa >> ELSE << pa, pb >>,
                                             2)]
    /\ UNCHANGED << txVars, detVars, skVars, ruleVars, hist, rxb, scan, parse, pacer, replay, adapt, txq, sig, dwin, phs, fill >>

(***************************************************************************)
(* ================= DETECTION WINDOWS OF THE HTTP AND QUIC DETECTORS ===== *)
(* process_packet and the window branch of detect_http_flood and           *)
(* detect_optimistic_ack.  A step processes a run of identical packets.    *)
(* The Count-Min sketches are exact per-source counters here (two sources, *)
(* no collision).  Beside the code's g_stats the state keeps, for the      *)
(* properties, what has been counted since window_start_tsc was last set   *)
(* (since) and the largest packet number each source has acknowledged      *)
(* before (acked).                                                         *)
(***************************************************************************)
MaxWinBursts == 3
MaxWindows == 2
MaxFastPasses == 2
WinBurstSizes == {1, 600}
WinNets == {"attack", "baseline"}
QUIC_MIN_PACKETS == 500
QUIC_ACK_RATE_THRESHOLD == 10000
QUIC_HEAVY_HITTER_THRESHOLD == 5000
HTTP_HEAVY_HITTER_THRESHOLD == 1000
PKT_NUM_JUMP_THRESHOLD == 1000

\* HTTP requests to port 80 with a payload of 10 bytes or more
HttpKinds == [net : WinNets, method : {"GET", "OTHER"}]
\* QUIC packets: to the server or from it (by the UDP ports), from either
\* network (by the source address), with no ACK frame or one ACK frame
QuicKinds ==
    [net : WinNets, to_server : {TRUE}, ack_count : {0, 1}, largest_ack : {0, 1500, 1501}]
      \cup [net : WinNets, to_server : {FALSE}, ack_count : {0}, largest_ack : {0}]

HttpZero ==
    [http_packets |-> 0, attack_packets |-> 0, get_requests |-> 0,
     top_url_count |-> 0, unique_ips |-> 0, heavy_hitters |-> 0]
QuicZero ==
    [quic_packets |-> 0, attack_packets |-> 0, total_bytes_in |-> 0,
     total_bytes_out |-> 0, max_ack_rate |-> 0, burst_detections |-> 0,
     unique_ips |-> 0, heavy_hitters |-> 0, suspicious_ips |-> 0]
HttpSinceZero == [http_packets |-> 0, attack_packets |-> 0, get_requests |-> 0]
QuicSinceZero ==
    [quic_packets |-> 0, attack_packets |-> 0, total_bytes_in |-> 0,
     total_bytes_out |-> 0, max_ack_rate |-> 0, burst_detections |-> 0]

DwinIdle == dwin = [on |-> FALSE]

\* detection_loop has set window_start_tsc; g_stats is zero.
DwinStart ==
    \E d \in {"http", "quic"} :
       dwin = [on |-> TRUE, det |-> d,
               stats |-> IF d = "http" THEN HttpZero ELSE QuicZero,
               ip_count |-> [s \in WinNets |-> 0], url_count |-> 0,
               alert_level |-> ALERT_NONE,
               since |-> IF d = "http" THEN HttpSinceZero ELSE QuicSinceZero,
               acked |-> [s \in WinNets |-> 0],
               last |-> [n |-> 0], bursts |-> 0, windows |-> 0, fast |-> 0]

\* How many of n counts that take a counter from prev to prev + n leave it
\* above the threshold
CountAbove(prev, n, threshold) == Max2(0, prev + n - Max2(prev, threshold))

\* http_flood_detector.c process_packet, n times on the same request
HttpBurst ==
    /\ dwin.on /\ dwin.det = "http" /\ dwin.bursts < MaxWinBursts
    /\ \E k \in HttpKinds, n \in WinBurstSizes :
         LET att == IF k.net = "attack" THEN n ELSE 0
             get == IF k.method = "GET" THEN n ELSE 0
             prev == dwin.ip_count[k.net]
             urls == dwin.url_count + get
         IN dwin' = [dwin EXCEPT
                !.bursts = @ + 1,
                !.last = [n |-> n],
                !.stats.http_packets = @ + n,
                !.stats.attack_packets = @ + att,
                !.stats.get_requests = @ + get,
                !.stats.unique_ips = @ + (IF prev = 0 THEN 1 ELSE 0),
                !.stats.heavy_hitters = @ + CountAbove(prev, n, HTTP_HEAVY_HITTER_THRESHOLD),
                !.stats.top_url_count = Max2(@, urls),
                !.ip_count[k.net] = @ + n,
                !.url_count = urls,
                !.since.http_packets = @ + n,
                !.since.attack_packets = @ + att,
                !.since.get_requests = @ + get]
    /\ UNCHANGED << txVars, detVars, skVars, ruleVars, hist, rxb, scan, parse, pacer, replay, adapt, txq, sig, mrg, phs, fill >>

\* detect_http_flood when the window has elapsed: the rules, then reset_window
HttpDetect ==
    /\ dwin.on /\ dwin.det = "http" /\ dwin.windows < MaxWindows
    /\ dwin' = [dwin EXCEPT
           !.windows = @ + 1,
           !.last = [n |-> 0],
           !.alert_level = HttpRulePass(dwin.stats, Hz).level,
           !.stats.unique_ips = 0,
           !.stats.heavy_hitters = 0,
           !.stats.top_url_count = 0,
           !.ip_count = [s \in WinNets |-> 0],
           !.url_count = 0,
           !.since = HttpSinceZero]
    /\ UNCHANGED << txVars, detVars, skVars, ruleVars, hist, rxb, scan, parse, pacer, replay, adapt, txq, sig, mrg, phs, fill >>

\* if (largest_ack > 0 && is_attack) if (largest_ack > PKT_NUM_JUMP_THRESHOLD)
QuicJumpCounted(k) ==
    /\ k.ack_count > 0
    /\ k.largest_ack > 0 /\ k.net = "attack"
    /\ k.largest_ack > PKT_NUM_JUMP_THRESHOLD

\* quic_optimistic_ack_detector.c process_packet, n times on the same packet
QuicBurst ==
    /\ dwin.on /\ dwin.det = "quic" /\ dwin.bursts < MaxWinBursts
    /\ \E k \in QuicKinds, n \in WinBurstSizes :
         LET att == IF k.net = "attack" THEN n ELSE 0
             prev == dwin.ip_count[k.net]
             acks == n * k.ack_count
             pkt_len == 100
             bin == IF k.to_server THEN n * pkt_len ELSE 0
             bout == IF k.to_server THEN 0 ELSE n * pkt_len
         IN /\ (k.ack_count = 0) = (k.largest_ack = 0)
            /\ dwin' = [dwin EXCEPT
                !.bursts = @ + 1,
                !.last = [n |-> n, net |-> k.net, ack_count |-> k.ack_count,
                          largest_ack |-> k.largest_ack,
                          prev_acked |-> dwin.acked[k.net]],
                !.stats.quic_packets = @ + n,
                !.stats.attack_packets = @ + att,
                !.stats.total_bytes_in = @ + bin,
                !.stats.total_bytes_out = @ + bout,
                !.stats.unique_ips = @ + (IF acks > 0 /\ prev = 0 THEN 1 ELSE 0),
                !.stats.heavy_hitters =
                    @ + (IF prev <= QUIC_HEAVY_HITTER_THRESHOLD
                            /\ prev + acks > QUIC_HEAVY_HITTER_THRESHOLD
                         THEN 1 ELSE 0),
                !.stats.max_ack_rate = IF acks > 0 THEN Max2(@, prev + acks) ELSE @,
                !.stats.suspicious_ips = @ + (IF QuicJumpCounted(k) THEN n ELSE 0),
                !.ip_count[k.net] = @ + acks,
                !.since.quic_packets = @ + n,
                !.since.attack_packets = @ + att,
                !.since.total_bytes_in = @ + bin,
                !.since.total_bytes_out = @ + bout,
                !.since.max_ack_rate = IF acks > 0 THEN Max2(@, prev + acks) ELSE @,
                !.acked[k.net] = IF acks > 0 THEN Max2(@, k.largest_ack) ELSE @]
    /\ UNCHANGED << txVars, detVars, skVars, ruleVars, hist, rxb, scan, parse, pacer, replay, adapt, txq, sig, mrg, phs, fill >>

\* detect_optimistic_ack, from the minimum-packet test to the last rule
QuicRulePass(st) ==
    LET enough == ~(st.quic_packets < QUIC_MIN_PACKETS)
        r1 == /\ enough
              /\ st.attack_packets > 0 /\ st.attack_packets * 100 > 5 * st.quic_packets
              /\ st.max_ack_rate > QUIC_ACK_RATE_THRESHOLD
        r2 == /\ enough
              /\ st.total_bytes_in > 0
              /\ st.total_bytes_out * 10 > 22 * st.total_bytes_in
        r3 == /\ enough
              /\ \/ st.heavy_hitters > 20
                 \/ st.heavy_hitters > 5 /\ st.attack_packets > 0
        r4 == enough /\ st.suspicious_ips > 3
        r5 == enough /\ st.burst_detections > 10
        l1 == IF r1 THEN ALERT_HIGH ELSE ALERT_NONE
        l2 == IF r2 THEN RaiseTo(l1, ALERT_HIGH) ELSE l1
        l3 == IF r3 THEN RaiseTo(l2, ALERT_MEDIUM) ELSE l2
        l4 == IF r4 THEN RaiseTo(l3, ALERT_MEDIUM) ELSE l3
    IN IF r5 THEN RaiseTo(l4, ALERT_LOW) ELSE l4

\* detect_optimistic_ack when the window has elapsed: the rules, then
\* reset_window
QuicDetect ==
    /\ dwin.on /\ dwin.det = "quic" /\ dwin.windows < MaxWindows
    /\ dwin' = [dwin EXCEPT
           !.windows = @ + 1,
           !.last = [n |-> 0],
           !.alert_level = QuicRulePass(dwin.stats),
           !.stats.unique_ips = 0,
           !.stats.heavy_hitters = 0,
           !.stats.suspicious_ips = 0,
           !.ip_count = [s \in WinNets |-> 0],
           !.since = QuicSinceZero]
    /\ UNCHANGED << txVars, detVars, skVars, ruleVars, hist, rxb, scan, parse, pacer, replay, adapt, txq, sig, mrg, phs, fill >>

\* detect_optimistic_ack, "Fast detection: Check for early amplification":
\* quic_packets >= 500, attack_ratio > 0.05 and bytes_ratio > 2.2
QuicFastCondition(st) ==
    /\ st.quic_packets >= QUIC_MIN_PACKETS
    /\ st.quic_packets > 0 /\ st.attack_packets * 100 > 5 * st.quic_packets
    /\ st.total_bytes_in > 0 /\ st.total_bytes_out * 10 > 22 * st.total_bytes_in

\* detect_optimistic_ack when the fast interval has elapsed and the window
\* has not: the fast check, then the return at elapsed_sec < 5
QuicFastDetect ==
    /\ dwin.on /\ dwin.det = "quic" /\ dwin.fast < MaxFastPasses
    /\ dwin' = [dwin EXCEPT
           !.fast = @ + 1,
           !.last = [n |-> 0],
           !.alert_level = IF QuicFastCondition(dwin.stats) THEN ALERT_HIGH ELSE @]
    /\ UNCHANGED << txVars, detVars, skVars, ruleVars, hist, rxb, scan, parse, pacer, replay, adapt, txq, sig, mrg, phs, fill >>

(***************************************************************************)
(* The phase schedule of the adaptive sender: parse_phases_file,           *)
(* create_default_phases and the load block of main                        *)
(* (dpdk_pcap_sender_v2.c).  A phases file is the sequence of its JSON     *)
(* objects; an object is a function from the keys it holds to their values.*)
(* Weights are in hundredths (0.60 is 60).                                 *)
(***************************************************************************)
MaxFilePhases == 2

\* The keys an object of the file may hold, and the values drawn for them.
FileKeys == {"duration", "http", "dns"}
FileValues == {0, 40, 60}
FileObjects == UNION { [ K -> FileValues ] : K \in SUBSET FileKeys }

RECURSIVE SeqsUpTo(_, _)
SeqsUpTo(S, n) ==
    IF n = 0 THEN { << >> }
    ELSE LET shorter == SeqsUpTo(S, n - 1)
         IN shorter \cup { Append(s, x) : s \in { t \in shorter : Len(t) = n - 1 }, x \in S }

\* The value of a key of an object, or the default the parser set beforehand.
KeyOr(o, key, default) == IF key \in DOMAIN o THEN o[key] ELSE default

\* parse_phases_file: every object becomes a phase, its keys assigned as read.
ParsedPhase(o) ==
    [ duration_sec |-> KeyOr(o, "duration", 30),
      http_pct     |-> KeyOr(o, "http", 0),
      dns_pct      |-> KeyOr(o, "dns", 0),
      ssh_pct      |-> KeyOr(o, "ssh", 0),
      udp_pct      |-> KeyOr(o, "udp", 0) ]

parse_phases_file(file) ==
    [ phases     |-> [ i \in 1..Len(file) |-> ParsedPhase(file[i]) ],
      num_phases |-> Len(file),
      ret        |-> IF Len(file) > 0 THEN 0 ELSE -1 ]

create_default_phases ==
    [ phases     |-> << [ duration_sec |-> 30, http_pct |-> 60, dns_pct |-> 20, ssh_pct |-> 10, udp_pct |-> 10 ],
                        [ duration_sec |-> 15, http_pct |-> 30, dns_pct |-> 50, ssh_pct |-> 10, udp_pct |-> 10 ],
                        [ duration_sec |-> 45, http_pct |-> 50, dns_pct |-> 15, ssh_pct |-> 25, udp_pct |-> 10 ] >>,
      num_phases |-> 3 ]

PhasesIdle == phs = [ on |-> FALSE ]

\* main after getopt: adaptive mode on, with or without a phases file.
PhasesStart ==
    \E has_file \in BOOLEAN, file \in SeqsUpTo(FileObjects, MaxFilePhases) :
        /\ has_file \/ file = << >>
        /\ phs = [ on |-> TRUE, phases_file |-> has_file, file |-> file, loaded |-> FALSE,
                   from_file |-> FALSE, num_phases |-> 0, phases |-> << >> ]

\* main: "Load or create phases for adaptive mode".
LoadPhases ==
    /\ phs.on /\ ~phs.loaded
    /\ LET parsed == parse_phases_file(phs.file)
           kept   == phs.phases_file /\ parsed.ret = 0
           cfg    == IF kept THEN parsed ELSE create_default_phases
       IN phs' = [ phs EXCEPT !.loaded = TRUE, !.from_file = kept,
                              !.num_phases = cfg.num_phases, !.phases = cfg.phases ]
    /\ UNCHANGED << txVars, detVars, skVars, ruleVars, hist, rxb, scan, parse, pacer, replay, adapt, txq, sig, mrg, dwin, fill >>

(***************************************************************************)
(* load_pcap and the fill loop of the free-run send loops                  *)
(* (dpdk_pcap_sender.c send_loop, dpdk_pcap_sender_v2.c send_loop_fast).   *)
(* A capture is the sequence of the caplen of its records.  A step fills   *)
(* one buffer of a burst or hands the burst to rte_eth_tx_burst.           *)
(***************************************************************************)
MaxCapture == 3
MaxFills == 5
PACKET_DATA_SIZE == 2048
Caplens == {60, 61, 3000}
\* pkt_data->len of a record of the malloc'ed array that load_pcap never wrote
GarbageLens == {0, 60, 65535}

\* load_pcap: the records that fit data[] are stored in order, the others are
\* skipped; the return value is 0 however many were stored
RECURSIVE LoadedLens(_)
LoadedLens(capture) ==
    IF capture = << >> THEN << >>
    ELSE IF Head(capture) > PACKET_DATA_SIZE THEN LoadedLens(Tail(capture))
         ELSE << Head(capture) >> \o LoadedLens(Tail(capture))

load_pcap(capture) ==
    [ pcap_packets |-> LoadedLens(capture),
      num_pcap_packets |-> Len(LoadedLens(capture)),
      ret |-> 0 ]

FillIdle == fill = [ on |-> FALSE ]

\* The free-run senders: send_loop of old/dpdk_pcap_sender.c and
\* send_loop_fast of dpdk_pcap_sender_v2.c
FreeRunSenders == {"send_loop", "send_loop_fast"}

RECURSIVE SumLens(_)
SumLens(lens) == IF lens = << >> THEN 0 ELSE Head(lens) + SumLens(Tail(lens))

\* main has called load_pcap on the capture and entered the send loop, which
\* has allocated the buffers of its first burst.
FillStart ==
    \E capture \in SeqsUpTo(Caplens, MaxCapture), sender \in FreeRunSenders :
        LET l == load_pcap(capture)
        IN /\ l.ret = 0
           /\ fill = [ on |-> TRUE, sender |-> sender, capture |-> capture,
                       pcap_packets |-> l.pcap_packets,
                       num_pcap_packets |-> l.num_pcap_packets,
                       current_packet_idx |-> 0, fills |-> 0,
                       pkts |-> << >>,
                       total_packets_sent |-> 0, total_bytes_sent |-> 0,
                       accepted_bytes |-> 0 ]

\* "Fill mbufs with PCAP data": one iteration of the for loop.  The record at
\* the index is copied; a record load_pcap did not write holds whatever the
\* allocation held.  send_loop adds the record's length to total_bytes_sent
\* here.  pkts holds the pkt_len of the buffers filled so far.
FillPacket ==
    /\ fill.on /\ fill.fills < MaxFills /\ Len(fill.pkts) < TxBurst
    /\ LET idx == fill.current_packet_idx
           next == IF idx + 1 >= fill.num_pcap_packets THEN 0 ELSE idx + 1
       IN \E len \in (IF idx < fill.num_pcap_packets
                      THEN { fill.pcap_packets[idx + 1] } ELSE GarbageLens) :
             fill' = [ fill EXCEPT !.fills = @ + 1,
                                   !.pkts = Append(@, len),
                                   !.total_bytes_sent =
                                       IF fill.sender = "send_loop" THEN @ + len ELSE @,
                                   !.current_packet_idx = next ]
    /\ UNCHANGED << txVars, detVars, skVars, ruleVars, hist, rxb, scan, parse, pacer, replay, adapt, txq, sig, mrg, dwin, phs >>

\* "Send burst": rte_eth_tx_burst accepts the first nb_tx buffers;
\* total_packets_sent += nb_tx; send_loop_fast adds the pkt_len of the
\* accepted buffers to total_bytes_sent; the unsent buffers are freed.
\* accepted_bytes is the sum of the lengths of the packets accepted so far.
FillTxBurst ==
    /\ fill.on /\ Len(fill.pkts) = TxBurst
    /\ \E nb_tx \in 0..TxBurst :
         LET sent == SumLens(SubSeq(fill.pkts, 1, nb_tx))
         IN fill' = [ fill EXCEPT !.pkts = << >>,
                                  !.total_packets_sent = @ + nb_tx,
                                  !.total_bytes_sent =
                                      IF fill.sender = "send_loop_fast" THEN @ + sent ELSE @,
                                  !.accepted_bytes = @ + sent ]
    /\ UNCHANGED << txVars, detVars, skVars, ruleVars, hist, rxb, scan, parse, pacer, replay, adapt, txq, sig, mrg, dwin, phs >>
(***************************************************************************)
(* Specifications                                                          *)
(***************************************************************************)
\* The variables of an executable that a specification does not run.
TxIdle ==
    /\ prog = "none"
    /\ tx_force_quit = FALSE
    /\ in_pool = [b \in Bufs |-> 1]
    /\ nic_ring = {}
    /\ f_pc = "alloc"
    /\ f_pkts = << >>
    /\ f_nb_tx = 0
    /\ current_packet_idx = 0
    /\ total_packets_sent = 0
    /\ total_bytes_sent = 0
    /\ b_pc = [l \in Lcores |-> "gen"]
    /\ b_bufs = [l \in Lcores |-> << >>]
    /\ b_nb_tx = [l \in Lcores |-> 0]
    /\ b_stats = [l \in Lcores |-> [tx_packets |-> 0, tx_dropped |-> 0, alloc_failed |-> 0]]
    /\ consecutive_alloc_fails = [l \in Lcores |-> 0]
    /\ tx_fail_count = 0
    /\ f_delay_us = 0
    /\ f_zero_run = 0
    /\ b_delay_us = [l \in Lcores |-> 0]

DetIdle ==
    /\ DetZero
    /\ rx_kind = [w \in Workers |-> NonIp]

RuleIdle ==
    /\ rule_in = [which |-> "none"]
    /\ rule_out = [done |-> FALSE]

FnIdle == HistIdle /\ RxIdle /\ ScanIdle /\ ParseIdle /\ PacerIdle /\ ReplayIdle /\ AdaptIdle /\ TxqIdle /\ SigIdle /\ MergeIdle /\ DwinIdle /\ PhasesIdle /\ FillIdle

\* The sender TX loops.
TxNext ==
    \/ NicComplete
    \/ TxSignal
    \/ FastAlloc
    \/ FastExit
    \/ FastTx
    \/ FastFree
    \/ \E l \in Lcores : BaseGen(l)
    \/ \E l \in Lcores : BaseTx(l)
    \/ \E l \in Lcores : BaseFree(l)
    \/ \E l \in Lcores : BaseExit(l)

InitTx == TxInit /\ DetIdle /\ SkStart /\ RuleIdle /\ FnIdle

SpecTx == InitTx /\ [][TxNext]_vars

\* The MIRA detector while it runs (no signal has arrived).
DetNext ==
    \/ \E w \in Workers : WorkerRx(w)
    \/ \E w \in Workers : WorkerStamp(w)
    \/ CoordInit
    \/ CoordDetect
    \/ CoordStats
    \/ CoordMemset
    \/ CoordSleep

InitDet == DetStart /\ TxIdle /\ SkStart /\ RuleIdle /\ FnIdle

SpecDet == InitDet /\ [][DetNext]_vars

\* The MIRA detector with SIGINT/SIGTERM arriving at any moment.
StopStart ==
    /\ DetZero
    /\ rx_kind \in { [w \in Workers |-> AttUdp], [w \in Workers |-> NonIp] }

StopNext ==
    \/ DetNext
    \/ DetSignal
    \/ \E w \in Workers : WorkerExit(w)

InitStop == StopStart /\ TxIdle /\ SkStart /\ RuleIdle /\ FnIdle

SpecStop == InitStop /\ [][StopNext]_vars

\* The per-worker sketches, store by store.
SketchNext ==
    \/ \E w \in Workers : SkUpdateBegin(w)
    \/ \E w \in Workers : SkRowLoad(w)
    \/ \E w \in Workers : SkRowStore(w)
    \/ \E w \in Workers : SkIpCount(w)
    \/ \E w \in Workers : SkTotal(w)
    \/ SkResetBegin
    \/ SkResetCounters
    \/ SkResetIpCounts
    \/ SkResetTotals

InitSketch == SkStart /\ DetIdle /\ TxIdle /\ RuleIdle /\ FnIdle

SpecSketch == InitSketch /\ [][SketchNext]_vars

\* The rule passes on drawn inputs.
RulesNext ==
    \/ ApplyMiraRules
    \/ ApplyHttpRules

InitRules == RuleStart /\ DetIdle /\ TxIdle /\ SkStart /\ FnIdle

SpecRules == InitRules /\ [][RulesNext]_vars

\* The detection-event statistics on drawn event sequences.
HistNext ==
    \/ HistFirstDetection
    \/ HistNextDetection

InitHist == HistStart /\ RxIdle /\ ScanIdle /\ ParseIdle /\ DetIdle /\ TxIdle /\ SkStart /\ RuleIdle /\ PacerIdle /\ ReplayIdle /\ AdaptIdle /\ TxqIdle /\ SigIdle /\ MergeIdle /\ DwinIdle /\ PhasesIdle /\ FillIdle

SpecHist == InitHist /\ [][HistNext]_vars


\* A run until it ends: either the MIRA detector (prog = "none") or the
\* sender in timed replay mode, with SIGINT/SIGTERM arriving at any moment.
TimedNext ==
    \/ TimedSend
    \/ TimedExit
    \/ TxSignal
    \/ NicComplete

QuitNext ==
    \/ prog = "none" /\ StopNext
    \/ prog = "timed" /\ TimedNext

\* The detector under attack traffic on every queue.
QuitStart ==
    /\ DetZero
    /\ rx_kind = [w \in Workers |-> AttUdp]

InitQuit ==
    /\ \/ QuitStart /\ TxIdle
       \/ DetIdle /\ TimedStart
    /\ SkStart /\ RuleIdle /\ FnIdle

SpecQuit == InitQuit /\ [][QuitNext]_vars

\* The RX packet loops, buffer by buffer.
RxNext ==
    \/ \E w \in Workers : RxBurst(w)
    \/ \E w \in Workers : RxPacket(w)

InitRx == RxStart /\ HistIdle /\ ScanIdle /\ ParseIdle /\ DetIdle /\ TxIdle /\ SkStart /\ RuleIdle /\ PacerIdle /\ ReplayIdle /\ AdaptIdle /\ TxqIdle /\ SigIdle /\ MergeIdle /\ DwinIdle /\ PhasesIdle /\ FillIdle

SpecRx == InitRx /\ [][RxNext]_vars

\* parse_quic_for_acks on drawn payloads.
ScanNext ==
    \/ ScanHeader
    \/ ScanIter

InitScan == ScanStart /\ HistIdle /\ RxIdle /\ ParseIdle /\ DetIdle /\ TxIdle /\ SkStart /\ RuleIdle /\ PacerIdle /\ ReplayIdle /\ AdaptIdle /\ TxqIdle /\ SigIdle /\ MergeIdle /\ DwinIdle /\ PhasesIdle /\ FillIdle

SpecScan == InitScan /\ [][ScanNext]_vars

\* The packet parsers on drawn frames.
ParseNext ==
    \/ MiraParse
    \/ QuicParse

InitParse == ParseStart /\ HistIdle /\ RxIdle /\ ScanIdle /\ DetIdle /\ TxIdle /\ SkStart /\ RuleIdle /\ PacerIdle /\ ReplayIdle /\ AdaptIdle /\ TxqIdle /\ SigIdle /\ MergeIdle /\ DwinIdle /\ PhasesIdle /\ FillIdle

SpecParse == InitParse /\ [][ParseNext]_vars

\* The rate limiting block on drawn windows.
PacerNext ==
    \/ PacerTick

InitPacer == PacerStart /\ HistIdle /\ RxIdle /\ ScanIdle /\ ParseIdle /\ DetIdle /\ TxIdle /\ SkStart /\ RuleIdle /\ ReplayIdle /\ AdaptIdle /\ TxqIdle /\ SigIdle /\ MergeIdle /\ DwinIdle /\ PhasesIdle /\ FillIdle

SpecPacer == InitPacer /\ [][PacerNext]_vars

\* The inter-packet delay of the timed replay on drawn gaps.
ReplayNext ==
    \/ ReplayWait

InitReplay == ReplayStart /\ HistIdle /\ RxIdle /\ ScanIdle /\ ParseIdle /\ PacerIdle /\ DetIdle /\ TxIdle /\ SkStart /\ RuleIdle /\ AdaptIdle /\ TxqIdle /\ SigIdle /\ MergeIdle /\ DwinIdle /\ PhasesIdle /\ FillIdle

SpecReplay == InitReplay /\ [][ReplayNext]_vars

\* The phase schedule of the adaptive sender.
AdaptNext ==
    \/ AdaptIter
    \/ AdaptStop

InitAdapt == AdaptStart /\ ReplayIdle /\ HistIdle /\ RxIdle /\ ScanIdle /\ ParseIdle /\ PacerIdle /\ DetIdle /\ TxIdle /\ SkStart /\ RuleIdle /\ TxqIdle /\ SigIdle /\ MergeIdle /\ DwinIdle /\ PhasesIdle /\ FillIdle

SpecAdapt == InitAdapt /\ [][AdaptNext]_vars

\* The generator workers and their TX queues.
TxqNext ==
    \E l \in Lcores :
       \/ TxqCall(l)
       \/ TxqReturn(l)

InitTxq == TxqStart /\ AdaptIdle /\ ReplayIdle /\ HistIdle /\ RxIdle /\ ScanIdle /\ ParseIdle /\ PacerIdle /\ DetIdle /\ TxIdle /\ SkStart /\ RuleIdle /\ SigIdle /\ MergeIdle /\ DwinIdle /\ PhasesIdle /\ FillIdle

SpecTxq == InitTxq /\ [][TxqNext]_vars

\* Signal handling and the log file of the HTTP and QUIC detectors.
SigNext ==
    \/ SignalHandler
    \/ DualPrintfTest
    \/ DualPrintfWrite
    \/ DetectionLoopExit
    \/ MainReturn

InitSig == SigStart /\ TxqIdle /\ AdaptIdle /\ ReplayIdle /\ HistIdle /\ RxIdle /\ ScanIdle /\ ParseIdle /\ PacerIdle /\ DetIdle /\ TxIdle /\ SkStart /\ RuleIdle /\ MergeIdle /\ DwinIdle /\ PhasesIdle /\ FillIdle

SpecSig == InitSig /\ [][SigNext]_vars

\* octosketch_merge on drawn source sketches.
MergeNext ==
    \/ MergeAll
    \/ MergeParts

InitMerge == MergeStart /\ SigIdle /\ TxqIdle /\ AdaptIdle /\ ReplayIdle /\ HistIdle /\ RxIdle /\ ScanIdle /\ ParseIdle /\ PacerIdle /\ DetIdle /\ TxIdle /\ SkStart /\ RuleIdle /\ DwinIdle /\ PhasesIdle /\ FillIdle

SpecMerge == InitMerge /\ [][MergeNext]_vars

\* The HTTP and QUIC detectors across detection windows.
DwinNext ==
    \/ HttpBurst
    \/ HttpDetect
    \/ QuicBurst
    \/ QuicDetect
    \/ QuicFastDetect

InitDwin == DwinStart /\ MergeIdle /\ SigIdle /\ TxqIdle /\ AdaptIdle /\ ReplayIdle /\ HistIdle /\ RxIdle /\ ScanIdle /\ ParseIdle /\ PacerIdle /\ DetIdle /\ TxIdle /\ SkStart /\ RuleIdle /\ PhasesIdle /\ FillIdle

SpecDwin == InitDwin /\ [][DwinNext]_vars

PhasesNext == LoadPhases

InitPhases == PhasesStart /\ DwinIdle /\ MergeIdle /\ SigIdle /\ TxqIdle /\ AdaptIdle /\ ReplayIdle /\ HistIdle /\ RxIdle /\ ScanIdle /\ ParseIdle /\ PacerIdle /\ DetIdle /\ TxIdle /\ SkStart /\ RuleIdle /\ FillIdle

SpecPhases == InitPhases /\ [][PhasesNext]_vars

FillNext ==
    \/ FillPacket
    \/ FillTxBurst

InitFill == FillStart /\ PhasesIdle /\ DwinIdle /\ MergeIdle /\ SigIdle /\ TxqIdle /\ AdaptIdle /\ ReplayIdle /\ HistIdle /\ RxIdle /\ ScanIdle /\ ParseIdle /\ PacerIdle /\ DetIdle /\ TxIdle /\ SkStart /\ RuleIdle

SpecFill == InitFill /\ [][FillNext]_vars
(***************************************************************************)
(* ============================ PROPERTIES =============================== *)
(***************************************************************************)

(*---------------- sender buffers (SpecTx) ----------------*)
\* The buffers a TX loop holds: all of the burst before rte_eth_tx_burst, the
\* unaccepted ones after it, none at the top of the loop.
FastHolds ==
    IF f_pc = "tx" THEN Range(f_pkts)
    ELSE IF f_pc = "free" THEN { f_pkts[i] : i \in (f_nb_tx + 1)..Len(f_pkts) }
    ELSE {}

BaseHolds(l) ==
    IF b_pc[l] = "tx" THEN Range(b_bufs[l])
    ELSE IF b_pc[l] = "free"
         THEN { b_bufs[l][i] : i \in (b_nb_tx[l] + 1)..Len(b_bufs[l]) }
    ELSE {}

Owners(b) ==
    in_pool[b] + B2N(b \in nic_ring) + B2N(b \in FastHolds)
        + Cardinality({ l \in Lcores : b \in BaseHolds(l) })

LoopsAtTop ==
    /\ f_pc \in {"alloc", "done"}
    /\ \A l \in Lcores : b_pc[l] \in {"gen", "done"}

\* C1: in both sender loops every buffer the NIC did not accept is released
\* exactly once before the next allocation: each buffer is at every moment in
\* exactly one place (the pool, the NIC, or one loop's burst), a loop at its
\* top holds no buffer, and once the NIC has completed what it accepted the
\* pool is back at its starting count.
C1_UnsentReleasedOnce ==
    /\ \A b \in Bufs : Owners(b) = 1
    /\ f_pc \in {"alloc", "done"} => f_pkts = << >>
    /\ \A l \in Lcores : b_pc[l] \in {"gen", "done"} => b_bufs[l] = << >>
    /\ (LoopsAtTop /\ nic_ring = {}) => \A b \in Bufs : in_pool[b] = 1

\* The fast loop is back at its allocation after two bursts, the last one
\* with one buffer refused, and the pool is full again.
C1_Witness ==
    /\ prog = "fast" /\ f_pc = "alloc"
    /\ f_nb_tx = 1
    /\ total_packets_sent >= 2
    /\ nic_ring = {}
    /\ \A b \in Bufs : in_pool[b] = 1

(*---------------- detector threads (SpecDet) ----------------*)
\* A step of worker w, of the coordinator.
WorkerStep(w) == WorkerRx(w) \/ WorkerStamp(w)
CoordStep == CoordInit \/ CoordDetect \/ CoordStats \/ CoordMemset \/ CoordSleep

\* The counter block of worker w with its window counters.
WorkerBlock(w) ==
    << g_worker_stats[w], window_baseline_pkts[w], window_attack_pkts[w],
       window_baseline_bytes[w], window_attack_bytes[w] >>

\* C2: the counter block of a worker, its window counters included, is
\* written only by that worker: every step that changes it is a step of the
\* owning worker.
C2_BlockWrittenByOwner ==
    [][ \A w \in Workers : WorkerBlock(w)' # WorkerBlock(w) => WorkerStep(w) ]_vars

\* C3: the sketch of a worker is updated and reset only by that worker: every
\* step that changes it is a step of the owning worker.
C3_SketchWrittenByOwner ==
    [][ \A w \in Workers :
           g_worker_sketch_attack'[w] # g_worker_sketch_attack[w] => WorkerStep(w) ]_vars

(*---------------- sketch (SpecSketch) ----------------*)
SketchQuiescent ==
    /\ r_pc.at = "idle"
    /\ \A w \in Workers : u_pc[w].at = "idle"

\* C4: a reset is atomic with respect to the updates: whenever no update and
\* no reset is in progress, every row of a worker's sketch sums to its
\* total_updates.
C4_RowsSumToTotal ==
    SketchQuiescent =>
        \A w \in Workers : \A i \in Rows :
            RowSum(g_worker_sketch_attack[w], i) = g_worker_sketch_attack[w].total_updates

(*---------------- DetectionState (SpecDet) ----------------*)
DetectionState ==
    << g_stats.alert_level, g_stats.alert_reason, g_stats.first_attack_packet_tsc,
       g_stats.first_detection_tsc, g_stats.last_detection_tsc,
       g_stats.detection_triggered, g_stats.detection_latency_ms,
       g_stats.min_detection_latency_ms, g_stats.max_detection_latency_ms,
       g_stats.sum_detection_latencies_ms, g_stats.total_detection_events,
       g_stats.detections_under_20ms, g_stats.detections_20_30ms,
       g_stats.detections_30_40ms, g_stats.detections_40_50ms,
       g_stats.detections_over_50ms >>

\* C5: every field of the detection state (alert level and reason, the
\* first-attack-packet timestamp, the detection timestamps, the latency
\* statistics, the histogram) is written only by the detector: every step that
\* changes one of them is a step of the coordinator.
C5_DetectionStateWrittenByDetector ==
    [][ DetectionState' # DetectionState => CoordStep ]_vars

(*---------------- rates and rules (SpecDet) ----------------*)
\* The packet counts detect_attacks divides by window_sec for the UDP, SYN,
\* ICMP and HTTP rates.
ProtoBasis ==
    << SumOver([w \in Workers |-> g_worker_stats[w].udp_packets], Workers),
       SumOver([w \in Workers |-> g_worker_stats[w].syn_packets], Workers),
       SumOver([w \in Workers |-> g_worker_stats[w].icmp_packets], Workers),
       SumOver([w \in Workers |-> g_worker_stats[w].http_requests], Workers) >>

\* detect_attacks starts a new window in this step.
WindowRollover ==
    /\ c_pc = "detect" /\ c_pc' = "stats"
    /\ g_stats'.window_start_tsc # g_stats.window_start_tsc

\* C6: a rate is the packets counted since the start of the current window
\* over the time since that start, and earlier windows never contribute: when
\* a window starts, the counts the UDP, SYN, ICMP and HTTP rates are taken
\* from are zero.
C6_RatesCountCurrentWindow ==
    [][ WindowRollover => ProtoBasis' = << 0, 0, 0, 0 >> ]_vars

\* The pass of detect_attacks that the step c_pc = "detect" makes, restated
\* from its text: when it evaluates the rules and what it compares.
PassStep == c_pc = "detect" /\ c_pc' = "stats"

PassEvaluates ==
    /\ (cur_tsc - g_stats.last_fast_detection_tsc) * 100 >= 5 * Hz
    /\ (cur_tsc - g_stats.window_start_tsc) * 10 >= Hz

PassDur == cur_tsc - g_stats.window_start_tsc

PassGate ==
    /\ SumOver(window_attack_pkts, Workers) > 0
    /\ SumOver(window_attack_pkts, Workers) * Hz > 50000 * PassDur

RateOver(n, pps) == ProtoBasis[n] * Hz > pps * PassDur

Fires(n, pps) == PassEvaluates /\ PassGate /\ RateOver(n, pps)

NoAttackEver ==
    \A w \in Workers :
        g_worker_stats[w].attack_packets = 0 /\ local[w].attack_packets = 0

\* C8: as long as no attack packet has been received, the first-attack-packet
\* timestamp is not set, no rule fires and total_detection_events stays 0.
C8_NoAttackNoDetection ==
    NoAttackEver =>
        /\ g_stats.first_attack_packet_tsc = 0
        /\ g_stats.total_detection_events = 0
        /\ ~g_stats.detection_triggered
        /\ g_stats.udp_flood_detections = 0
        /\ g_stats.syn_flood_detections = 0
        /\ g_stats.icmp_flood_detections = 0
        /\ g_stats.http_flood_detections = 0
        /\ g_stats.total_flood_detections = 0
        /\ g_stats.alert_level = ALERT_NONE
        /\ g_stats.alert_reason = << >>

\* Baseline traffic alone above the UDP threshold, and a pass has just
\* evaluated the rules.
C8_Witness ==
    /\ NoAttackEver
    /\ c_pc = "stats"
    /\ g_stats.last_fast_detection_tsc = cur_tsc
    /\ (cur_tsc - g_stats.window_start_tsc) * 10 >= Hz
    /\ ProtoBasis[1] * Hz > 20000 * (cur_tsc - g_stats.window_start_tsc)

Severity(clause) ==
    CASE clause \in {"UDP", "SYN", "ICMP", "HTTP", "MULTI"} -> 3
      [] clause = "HIGH ATTACK RATE" -> 3
      [] clause \in {"URL CONCENTRATION", "BOTNET PATTERN"} -> 2
      [] clause \in {"HEAVY HITTERS", "METHOD ANOMALY"} -> 1

\* C10: when several rules fire in the same pass, the alert level after the
\* pass is the highest severity among the rules that fired (and no alert when
\* none fired).
C10_LevelIsMaxSeverity ==
    rule_out.done =>
        rule_out.level = SetMax({ Severity(c) : c \in Range(rule_out.fired) })

\* A high-severity and a low-severity rule fired in one pass.
C10_Witness ==
    /\ rule_out.done
    /\ rule_in.which = "http"
    /\ {"HIGH ATTACK RATE", "HEAVY HITTERS"} \subseteq Range(rule_out.fired)

(*---------------- multi-attack rule (SpecDet) ----------------*)
\* How many of the UDP, SYN and ICMP rates the pass computes exceed their soft
\* thresholds (10,000, 10,000 and 5,000 pps).
SoftTypes == B2N(RateOver(1, 10000)) + B2N(RateOver(2, 10000)) + B2N(RateOver(3, 5000))

\* C11: in every fast pass that evaluates the rules with the attack-network
\* gate open and at least two of the UDP, SYN and ICMP rates above their soft
\* thresholds, the Multi-attack rule fires: it is counted, the level is High
\* and its clause is in the alert reason, whatever other rules fire in that
\* pass.
C11_MultiFiresWithOthers ==
    [][ (PassStep /\ PassEvaluates /\ PassGate /\ SoftTypes >= 2)
            => /\ "MULTI" \in Range(g_stats'.alert_reason)
               /\ g_stats'.total_flood_detections = g_stats.total_flood_detections + 1
               /\ g_stats'.alert_level = ALERT_HIGH ]_vars

(*---------------- latency histogram (SpecHist) ----------------*)
\* C12: after detection events with inter-arrival latencies 10, 25, 35, 45 and
\* 60 ms have been processed, each of the five histogram bins holds exactly 1
\* and the latency statistics are min = 10, max = 60, sum = 175, count = 5.
C12_HistogramAndStatistics ==
    (hist.on /\ hist.lat = << 10, 25, 35, 45, 60 >>) =>
        /\ hist.s.detections_under_20ms = 1
        /\ hist.s.detections_20_30ms = 1
        /\ hist.s.detections_30_40ms = 1
        /\ hist.s.detections_40_50ms = 1
        /\ hist.s.detections_over_50ms = 1
        /\ hist.s.min_detection_latency_ms = 10
        /\ hist.s.max_detection_latency_ms = 60
        /\ hist.s.sum_detection_latencies_ms = 175
        /\ hist.s.total_detection_events = 5


\* What worker w has counted, published or not yet published.
Counted(w, f) == g_worker_stats[w][f] + local[w][f]
\* Worker w receives a burst that is not empty.
ReceivesBurst(w) ==
    /\ WorkerRx(w)
    /\ Counted(w, "rx_bursts_empty")' = Counted(w, "rx_bursts_empty")

\* C13: every received packet is counted in total: when a worker has processed
\* a burst of BURST_SIZE packets its total_packets counter (the sum of the
\* classes) has grown by BURST_SIZE, whatever the packets are.
C13_EveryPacketCountedInTotal ==
    [][ \A w \in Workers :
          ReceivesBurst(w) =>
              Counted(w, "total_packets")' = Counted(w, "total_packets") + BURST_SIZE ]_vars

\* The run's force_quit has been set.
Stopping == IF prog = "none" THEN force_quit ELSE tx_force_quit
\* Every thread of the run has returned.
Returned ==
    IF prog = "none"
    THEN c_pc = "done" /\ \A w \in Workers : w_pc[w] = "done"
    ELSE f_pc = "done"
\* Iterations begun so far by each loop.
IterationsBegun ==
    << c_iters, [w \in Workers |-> Counted(w, "rx_bursts_total")],
       current_packet_idx, total_packets_sent >>
\* An upper bound on the steps left once force_quit is set: the rest of the
\* iteration each thread is in, its exit, and the NIC's pending completions.
CoordStepsLeft ==
    CASE c_pc = "detect" -> 6
      [] c_pc = "stats" -> 5
      [] c_pc = "memset" -> 4
      [] c_pc \in {"sleep", "init"} -> 3
      [] c_pc = "fstats" -> 2
      [] c_pc = "fmemset" -> 1
      [] OTHER -> 0
WorkerStepsLeft(w) ==
    CASE w_pc[w] = "stamp" -> 2
      [] w_pc[w] = "rx" -> 1
      [] OTHER -> 0
StepsLeft ==
    IF prog = "none"
    THEN CoordStepsLeft + SumOver([w \in Workers |-> WorkerStepsLeft(w)], Workers)
    ELSE (IF f_pc = "done" THEN 0 ELSE 1) + Cardinality(nic_ring)

\* C14: once force_quit is set no loop begins a further iteration, and every
\* thread returns: each step taken after the flag is set leaves the iteration
\* counts as they are and brings the threads strictly closer to having
\* returned, and as long as a thread has not returned a step is possible.
C14_LoopsExitAfterForceQuit ==
    /\ [](Stopping => (Returned \/ ENABLED << QuitNext >>_vars))
    /\ [][ Stopping => /\ IterationsBegun' = IterationsBegun
                       /\ StepsLeft' < StepsLeft ]_vars

C14_Witness ==
    /\ prog = "none" /\ force_quit /\ Returned
    /\ c_iters >= 1
    /\ \E w \in Workers : g_worker_stats[w].total_packets > 0

\* The (lcore, position) pairs at which buffer m is held: the packets of the
\* current burst that the loop has not yet finished.
RxHolders(m) ==
    { h \in Workers \X (1..RxBurstMax) :
        /\ h[2] <= Len(rxb.bufs[h[1]])
        /\ h[2] > rxb.i[h[1]]
        /\ rxb.bufs[h[1]][h[2]] = m }

\* C15: every buffer is at any moment either in the pool (once) or held by
\* exactly one worker as a packet it has not finished; so a received buffer is
\* released exactly once, by the worker that received it, before that worker
\* goes on to its next packet, whether the packet is IPv4 or not.
C15_RxBufferReleasedOnce ==
    rxb.on => \A m \in Bufs : rxb.pool[m] + Cardinality(RxHolders(m)) = 1

\* A worker has dropped a non-IPv4 packet and is at the next packet of the
\* burst; the dropped packet's buffer is back in the pool.
C15_Witness ==
    /\ rxb.on /\ rxb.prog = "mira"
    /\ \E w \in Workers :
          /\ rxb.i[w] = 1 /\ Len(rxb.bufs[w]) = 2
          /\ ~rxb.pkts[w][1].ipv4
          /\ rxb.pool[rxb.bufs[w][1]] = 1

\* C16: for a frame of length L, truncated or with header fields that do not
\* agree with L, the parser reads no byte at an offset >= L.
C16_NoReadPastFrame ==
    (parse.on /\ parse.done) => \A o \in parse.reads : o < parse.frame.len

\* C17: in every iteration the ACK-frame scan advances by at least one byte,
\* and it makes at most 64 iterations.
C17_ScanAdvancesAndIsBounded ==
    [][ (scan.on /\ scan.pc = "scan")
            => /\ scan'.offset >= scan.offset + 1
               /\ scan'.iters <= 64 ]_vars

\* An allocation of the fast loop fails / of the baseline generator on lcore l
\* fails.
FastAllocFails == FastAlloc /\ f_pc' = "alloc"
BaseAllocFails(l) ==
    BaseGen(l) /\ b_stats'[l].alloc_failed = b_stats[l].alloc_failed + 1

\* C18: when an allocation fails the sender holds no buffer from the failed
\* call (the pool has not lost one to it), backs off 100 microseconds, goes
\* on to allocate again and is not terminated by the failure.
C18_AllocFailureBacksOffAndRetries ==
    [][ /\ FastAllocFails
            => /\ f_pkts' = << >> /\ in_pool' = in_pool
               /\ f_delay_us' = 100
               /\ f_pc' = "alloc" /\ ~tx_force_quit'
        /\ \A l \in Lcores :
              BaseAllocFails(l)
                  => /\ in_pool' = PoolMinus(in_pool, b_bufs'[l])
                     /\ b_delay_us'[l] = 100
                     /\ b_pc'[l] \in {"gen", "tx"} /\ ~tx_force_quit' ]_vars

\* C19: when rte_eth_tx_burst has returned 0 for a non-empty burst TxFailLimit
\* times in a row (100 in the programs), the sender shuts down: the burst's
\* buffers go back to the pool, force_quit is set and the loop is left.  In
\* the baseline generator a run of that length brings tx_fail_count to the
\* limit at the latest.
C19_SustainedTxFailureIsFatal ==
    [][ /\ (FastTx /\ f_zero_run' >= TxFailLimit)
            => /\ tx_force_quit'
               /\ f_pc' = "done"
               /\ in_pool' = PoolPlus(in_pool, f_pkts)
        /\ \A l \in Lcores :
              (BaseTx(l) /\ b_nb_tx'[l] = 0 /\ tx_fail_count' >= TxFailLimit)
                  => /\ tx_force_quit'
                     /\ b_pc'[l] = "done"
                     /\ in_pool' = PoolPlus(in_pool, b_bufs[l]) ]_vars

\* C20: at a tick inside the window with bytes_in_window above target x
\* elapsed, the sender sleeps the overshoot time clamped to 100 microseconds
\* (in the whole microseconds rte_delay_us_block takes): never more than 100,
\* and 100 when the overshoot calls for more.
C20_SleepIsOvershootClamped ==
    (pacer.on /\ pacer.ticked /\ pacer.over) =>
        /\ pacer.slept_us <= 100
        /\ pacer.slept_us = Min2(pacer.sleep_ns \div 1000, 100)

\* The capture gap divided by the speedup and multiplied by the jitter factor,
\* in whole microseconds; 0 for a negative gap.
ScaledGapUs ==
    IF replay.gap_us < 0 THEN 0
    ELSE ApplyJitter(replay.gap_us \div replay.speedup, replay.jitter)

\* C21: the delay slept before a packet is the capture gap divided by the
\* speedup and multiplied by the jitter factor, clamped to [0, 10 s]: never
\* negative, never above 10 s, and 10 s when the scaled gap is 10 s or more.
C21_DelayIsScaledGapClamped ==
    (replay.on /\ replay.waited) =>
        /\ replay.slept_us >= 0
        /\ replay.slept_us <= 10000000
        /\ replay.slept_us = Min2(ScaledGapUs, 10000000)

\* The iteration reads the clock at or after the end of the running phase.
PhaseDue == adapt'.tsc - adapt.phase_start_tsc >= adapt.phase_duration_tsc

\* C22: in phase-weighted mode an iteration that finds the current phase's
\* duration elapsed moves to the next phase of the schedule; after the last
\* phase the schedule restarts from the first phase if loop_mode is on and
\* does not restart if loop_mode is off.
C22_PhasesAdvanceAndLoopOnlyIfAsked ==
    [][ (AdaptIter /\ PhaseDue) =>
          LET last == adapt.current_phase = adapt.num_phases - 1
              restarted == /\ adapt'.current_phase = 0
                           /\ adapt'.phase_start_tsc = adapt'.tsc
                           /\ adapt'.phase_duration_tsc = adapt.phases[0]
          IN  IF ~last
              THEN adapt'.current_phase = adapt.current_phase + 1
              ELSE IF adapt.loop_mode THEN restarted ELSE ~restarted ]_vars

\* C23: each generator worker transmits on its own TX queue: at no time are
\* two threads inside rte_eth_tx_burst on the same port and queue.
C23_NoTwoThreadsOnOneTxQueue ==
    txq.on =>
        \A l1 \in Lcores, l2 \in Lcores :
            (l1 # l2 /\ txq.pc[l1] = "in_tx" /\ txq.pc[l2] = "in_tx")
                => txq.queue[l1] # txq.queue[l2]

\* C24: the signal handler does nothing except set force_quit: it makes no
\* stdio call and does not close the log file; a log file that was opened is
\* closed by the main thread on its exit path.
C24_HandlerOnlySetsFlag ==
    sig.on =>
        /\ sig.handler_stdio = 0
        /\ sig.closed_by # "handler"
        /\ (sig.signals > 0 => sig.force_quit)
        /\ (sig.pc = "returned" /\ (sig.g_log_file = "open" \/ sig.closed_by # "nobody"))
              => sig.closed_by = "main"

\* The sum of the sources' values of one cell.
SourceSum(cell(_)) ==
    SumOver([s \in 1..MergeSources |-> cell(mrg.src[s])], 1..MergeSources)

\* C25: after a merge every cell of the merged sketch is the sum of the same
\* cell of the source sketches; when every source has applied update(key, 1)
\* for the same key, the merged query of the key is the total of the updates
\* (1500 for 1000 and 500).
C25_MergedCellIsSumOfSources ==
    (mrg.on /\ mrg.merges > 0) =>
        /\ \A i \in Rows, j \in Cols :
              LET c(sk) == sk.counters[i][j] IN mrg.dst.counters[i][j] = SourceSum(c)
        /\ \A x \in IpSlots :
              LET c(sk) == sk.ip_counts[x] IN mrg.dst.ip_counts[x] = SourceSum(c)
        /\ LET c(sk) == sk.total_updates IN mrg.dst.total_updates = SourceSum(c)
        /\ (\A s \in 1..MergeSources : mrg.key[s] = mrg.key[1]) =>
              octosketch_query_ip(mrg.dst, mrg.key[1])
                  = SumOver(mrg.count, 1..MergeSources)

\* Two sources have applied update(key, 1) 1000 and 500 times, the third not
\* at all, and the merged sketch answers 1500 after a second merge.
C25_Witness ==
    /\ mrg.on /\ mrg.merges = 2
    /\ mrg.count = << 1000, 500, 0 >>
    /\ mrg.key[1] = mrg.key[2] /\ mrg.key[2] = mrg.key[3]
    /\ octosketch_query_ip(mrg.dst, mrg.key[1]) = 1500

\* C26: merge is associative and commutative: whatever the split of the
\* sources into parts and the order of the merges, the merged sketch is the
\* same; a merge that follows another over the same sources changes nothing.
C26_MergeOrderAndPartitionIrrelevant ==
    [][ (mrg.on /\ mrg.merges > 0 /\ (MergeAll \/ MergeParts))
            => mrg'.dst = mrg.dst ]_vars

\* A merge part by part has followed a merge of sources that differ.
C26_Witness ==
    /\ mrg.on /\ mrg.merges = 2 /\ mrg.parts = 2
    /\ mrg.key[1] # mrg.key[2]
    /\ mrg.count = << 1000, 500, 500 >>
    /\ mrg.dst.total_updates = 2000

\* The sampled updates a worker step owes: the multiples of the sample rate
\* that the count of attack packets has passed.
SamplesDue(w) ==
    (sample_counter'[w] \div SKETCH_SAMPLE_RATE) - (sample_counter[w] \div SKETCH_SAMPLE_RATE)

\* C27: a worker's sketch is updated only for attack packets, once for every
\* 32nd attack packet the worker has seen, with weight 32 on the cells of the
\* source address and 32 times the packet length on the byte accumulator; a
\* burst that is not attack traffic leaves the sketch as it is.
C27_SketchSamplesAttackOnly ==
    /\ [](\A w \in Workers :
             w_pc[w] = "rx" => sample_counter[w] = Counted(w, "attack_packets"))
    /\ [][ \A w \in Workers :
             WorkerStep(w) =>
               LET p == rx_kind[w]
                   old == g_worker_sketch_attack[w]
                   new == g_worker_sketch_attack'[w]
                   add == SamplesDue(w) * SKETCH_SAMPLE_RATE
               IN IF ~(p.ipv4 /\ IsAttack(p))
                  THEN new = old /\ sample_counter'[w] = sample_counter[w]
                  ELSE /\ new.total_updates = old.total_updates + add
                       /\ new.total_bytes = old.total_bytes + add * p.pkt_len
                       /\ \A i \in Rows, j \in Cols :
                            new.counters[i][j] =
                               old.counters[i][j]
                                 + (IF j = octosketch_hash(p.src_ip, i) THEN add ELSE 0) ]_vars

\* A worker has seen a burst of attack packets and its sketch holds one
\* update of weight 32 for every 32nd of them.
C27_Witness ==
    \E w \in Workers :
       /\ w_pc[w] = "rx"
       /\ sample_counter[w] = BURST_SIZE
       /\ g_worker_sketch_attack[w].total_updates = BURST_SIZE
       /\ g_worker_sketch_attack[w].total_bytes = BURST_SIZE * rx_kind[w].pkt_len

\* C28: in the HTTP and QUIC detectors every quantity that a rule compares
\* with its threshold (HTTP, QUIC, attack and GET packet counts, bytes in and
\* out, maximum ACKs per source, burst count) counts only what has happened
\* since the current detection window started: when the rules run, each is
\* the count since the window's start.
C28_RuleQuantitiesAreWindowed ==
    [][ (HttpDetect \/ QuicDetect) =>
           \A f \in DOMAIN dwin.since : dwin.stats[f] = dwin.since[f] ]_vars

\* ACKs of the last run of packets that acknowledge more than 1000 packet
\* numbers beyond what their source had acknowledged before: the first packet
\* of the run can, the others repeat its number.
TrueJumps ==
    IF dwin.last.n > 0 /\ dwin.last.ack_count > 0
          /\ dwin.last.largest_ack - dwin.last.prev_acked > PKT_NUM_JUMP_THRESHOLD
    THEN 1 ELSE 0

\* C29: the packet-number-jump rule counts an ACK as a jump only when its
\* largest acknowledged packet number is more than 1000 above the packet
\* number the same source had acknowledged before.
C29_JumpIsRelativeToSource ==
    [][ QuicBurst =>
           dwin'.stats.suspicious_ips - dwin.stats.suspicious_ips <= TrueJumps' ]_vars

\* C30: when a worker returns after force_quit every increment it has made is
\* in its published counters: the step that leaves the loop adds every local
\* counter (packets, bytes, per-protocol counts, RX bursts and empty bursts) to
\* the worker's block, so that no empty rx_burst goes uncounted.
C30_NothingLocalLostAtExit ==
    [][ \A w \in Workers :
          WorkerExit(w) =>
             \A f \in CounterFields :
                g_worker_stats'[w][f] = g_worker_stats[w][f] + local[w][f] ]_vars

\* The counters of a worker other than total_packets and the burst counters.
OtherPacketCounters ==
    CounterFields \ {"total_packets", "rx_bursts_total", "rx_bursts_empty"}

\* C31: a packet that is not IPv4 (or is truncated or malformed) increments
\* total_packets and no other counter: a burst of BURST_SIZE such packets
\* raises the worker's total_packets by BURST_SIZE and leaves every other
\* packet and byte counter as it was.
C31_DroppedPacketCountedInTotalOnly ==
    [][ \A w \in Workers :
          (ReceivesBurst(w) /\ ~rx_kind[w].ipv4) =>
              /\ Counted(w, "total_packets")' = Counted(w, "total_packets") + BURST_SIZE
              /\ \A f \in OtherPacketCounters : Counted(w, f)' = Counted(w, f) ]_vars

\* The sum of the four traffic weights of a phase, in hundredths.
WeightSum(p) == p.http_pct + p.dns_pct + p.ssh_pct + p.udp_pct

\* C32: every phase of the schedule the replayer runs with has weights that
\* sum to 1.0 within 0.01 and a duration greater than zero; a phases file
\* that violates this is not committed as the schedule.
C32_SchedulePhasesAreValid ==
    (phs.on /\ phs.loaded) =>
        \A i \in 1..phs.num_phases :
            /\ WeightSum(phs.phases[i]) >= 99
            /\ WeightSum(phs.phases[i]) <= 101
            /\ phs.phases[i].duration_sec > 0

\* C33: first_attack_packet_tsc is set at most once per run, by the first
\* attack packet any worker observes, and is never overwritten afterwards,
\* under any interleaving of the workers' check-then-set: once it is non-zero
\* no step changes it.
C33_FirstAttackStampSetOnce ==
    [][ g_stats.first_attack_packet_tsc # 0 =>
            g_stats'.first_attack_packet_tsc = g_stats.first_attack_packet_tsc ]_vars

\* C34: after a fast-detection pass in which no rule's condition holds, the
\* alert level is None: an alert raised by an earlier pass does not persist
\* once its condition has ceased to hold.
C34_AlertClearedWhenNoRuleHolds ==
    [][ (QuicFastDetect /\ ~QuicFastCondition(dwin.stats)) =>
            dwin'.alert_level = ALERT_NONE ]_vars

\* C35: the counter that triggers the fatal TX escalation counts only the
\* consecutive zero returns of one worker: it is zero again after a tx_burst
\* of that worker has accepted at least one packet, and the first zero return
\* of a worker after such a burst leaves it at one, whatever the zero returns
\* of the other workers have been.
C35_TxFailCountIsPerWorkerAndConsecutive ==
    [][ \A l \in Lcores :
          BaseTx(l) =>
              /\ (b_nb_tx'[l] > 0 => tx_fail_count' = 0)
              /\ (b_nb_tx'[l] = 0 /\ b_nb_tx[l] > 0 => tx_fail_count' = 1) ]_vars

\* C36: in timestamp-faithful mode the records are attempted in capture order,
\* each exactly once: the index never passes the number of records and only
\* the send loop moves it, by one; an iteration whose buffer allocation fails
\* leaves the index on the same record and sends nothing; an iteration that
\* has a buffer hands the record at the index to tx_burst (an accepted packet
\* adds that record's length to the bytes sent) and moves on to the next.
C36_TimedRecordsInOrderOnce ==
    /\ [](prog = "timed" => current_packet_idx <= NumPcap)
    /\ [][ /\ (prog = "timed" /\ current_packet_idx' # current_packet_idx)
               => TimedSend /\ current_packet_idx' = current_packet_idx + 1
           /\ TimedSend =>
                 IF FreeBufs(in_pool) = {}
                 THEN /\ current_packet_idx' = current_packet_idx
                      /\ total_packets_sent' = total_packets_sent
                      /\ nic_ring' = nic_ring
                 ELSE /\ current_packet_idx' = current_packet_idx + 1
                      /\ f_nb_tx' = 1 =>
                            total_bytes_sent' =
                                total_bytes_sent + PcapLen(current_packet_idx) ]_vars

\* The allocation for the last record has failed with every buffer of the pool
\* in the NIC's hands: the record is still the current one.
C36_Witness ==
    /\ prog = "timed" /\ f_pc = "alloc"
    /\ f_delay_us = ALLOC_RETRY_US
    /\ FreeBufs(in_pool) = {}
    /\ current_packet_idx = NumPcap - 1
    /\ total_packets_sent = NumPcap - 1

\* C37: in free-run mode current_packet_idx < num_pcap_packets every time a
\* buffer is filled, so only records loaded from the capture are transmitted,
\* also when the capture yields no usable record.
C37_FillIndexWithinLoadedRecords ==
    [][ FillPacket => fill.current_packet_idx < fill.num_pcap_packets ]_vars

\* C38: under any interleaving of the signal handler with the detection loop
\* the log file is never written after it has been closed, and it is closed
\* at most once: a step that closes it finds it closed by nobody before.
C38_LogNeverWrittenAfterClose ==
    /\ [](sig.on => ~sig.stale_write)
    /\ [][ (sig.on /\ sig.g_log_file = "open" /\ sig'.g_log_file = "null")
               => sig.closed_by = "nobody" ]_vars

\* The sum of the five histogram bins of the detection statistics.
BinSum(s) ==
    s.detections_under_20ms + s.detections_20_30ms + s.detections_30_40ms
        + s.detections_40_50ms + s.detections_over_50ms

\* C39: at all times the five histogram bins sum to total_detection_events - 1
\* once at least one detection event has been recorded, and to 0 before: every
\* detection event after the first is placed in exactly one bin.
C39_BinsSumToEventsMinusOne ==
    hist.on =>
        BinSum(hist.s) = IF hist.s.total_detection_events = 0
                         THEN 0
                         ELSE hist.s.total_detection_events - 1

\* Six events have been recorded, one later event in every bin.
C39_Witness ==
    /\ hist.on
    /\ hist.s.total_detection_events = 6
    /\ hist.s.detections_under_20ms = 1 /\ hist.s.detections_20_30ms = 1
    /\ hist.s.detections_30_40ms = 1 /\ hist.s.detections_40_50ms = 1
    /\ hist.s.detections_over_50ms = 1


\* C40: total_bytes_sent equals the sum of the lengths of the packets that
\* tx_burst has accepted, whenever no burst is being filled.
C40_BytesSentAreAcceptedBytes ==
    (fill.on /\ fill.pkts = << >>) => fill.total_bytes_sent = fill.accepted_bytes
====
